---- MODULE Spec2Model ----
(***************************************************************************)
(* Post-Quantum-Cryptography-Demonstrator: the gateway (src/pqc_utils.py:  *)
(* ResourceMonitor, PQCSimulator, PQCUtils), the history store             *)
(* (src/database.py: Database) and the HTTP boundary (src/app.py).         *)
(*                                                                         *)
(* Representation.  A Python str is a sequence of code points, a bytes     *)
(* object a sequence of 0..255.  None is the one-element sequence <<-1>>   *)
(* (no str or bytes holds -1).  A float quantity (MB, percent, ms) is an   *)
(* integer number of thousandths.  An exception message is a sequence of   *)
(* string pieces, f-string concatenation being \o.                         *)
(*                                                                         *)
(* The byte strings os.urandom returns (32 to 4000 bytes) and their base64 *)
(* texts are held in state packed: <<-2, n, seed, used>> is the byte       *)
(* string urandom_bytes(n, seed, used) and <<-3, n, seed, used>> its       *)
(* base64 text.  Content gives a packed value's elements, Unpack and Pack  *)
(* convert, and every operation on a value acts on its elements.           *)
(***************************************************************************)
EXTENDS Integers, Sequences, FiniteSets, TLC

None == <<-1>>

(***************************************************************************)
(* base64 (standard alphabet), as base64.b64encode / base64.b64decode      *)
(* (validate=False, i.e. binascii.a2b_base64 in non-strict mode) compute.  *)
(***************************************************************************)

\* the ASCII code of the base64 digit v, 0 <= v <= 63
b64char(v) ==
  IF v < 26 THEN 65 + v
  ELSE IF v < 52 THEN 71 + v
  ELSE IF v < 62 THEN v - 4
  ELSE IF v = 62 THEN 43 ELSE 47

\* the digit a character stands for; 64 for a character outside the alphabet
b64index(c) ==
  IF c >= 65 /\ c <= 90 THEN c - 65
  ELSE IF c >= 97 /\ c <= 122 THEN c - 71
  ELSE IF c >= 48 /\ c <= 57 THEN c + 4
  ELSE IF c = 43 THEN 62
  ELSE IF c = 47 THEN 63 ELSE 64

\* b64encode without the '=' padding (the urlsafe habit of stripping it)
b64encode_compute_unpadded(b) ==
  LET n == Len(b)
      byte(i) == IF i <= n THEN b[i] ELSE 0
  IN [i \in 1..(((4 * n) + 2) \div 3) |->
        LET g == (i - 1) \div 4
            j == (i - 1) % 4
            v == byte(3*g + 1) * 65536 + byte(3*g + 2) * 256 + byte(3*g + 3)
        IN IF j = 0 THEN b64char(v \div 262144)
           ELSE IF j = 1 THEN b64char((v \div 4096) % 64)
           ELSE IF j = 2 THEN b64char((v \div 64) % 64)
           ELSE b64char(v % 64)]

\* base64.b64encode on the bytes b: 3 bytes -> 4 digits, '=' padded
b64encode_compute(b) ==
  LET n == Len(b)
      byte(i) == IF i <= n THEN b[i] ELSE 0
  IN [i \in 1..(4 * ((n + 2) \div 3)) |->
        LET g == (i - 1) \div 4
            j == (i - 1) % 4
            v == byte(3*g + 1) * 65536 + byte(3*g + 2) * 256 + byte(3*g + 3)
        IN IF j = 0 THEN b64char(v \div 262144)
           ELSE IF j = 1 THEN b64char((v \div 4096) % 64)
           ELSE IF j = 2 THEN (IF 3*g + 2 <= n THEN b64char((v \div 64) % 64)
                               ELSE 61)
           ELSE (IF 3*g + 3 <= n THEN b64char(v % 64) ELSE 61)]

\* binascii.a2b_base64, the end of the parse: the first '=' that completes
\* a quad of at least two digits (digits before it mod 4, plus the '=' run
\* since the last digit, reach 4); 0 when the parse runs to the end of s
a2b_stop(s) ==
  LET isDigit(i) == b64index(s[i]) < 64
      padPos == {p \in 1..Len(s) : s[p] = 61}
      quad_pos(p) == Cardinality({i \in 1..(p - 1) : isDigit(i)}) % 4
      pads(p) == Cardinality({i \in padPos :
                    i <= p /\ \A j \in (i + 1)..(p - 1) : ~isDigit(j)})
      stops == {p \in padPos : quad_pos(p) >= 2 /\ quad_pos(p) + pads(p) >= 4}
  IN IF stops = {} THEN 0 ELSE CHOOSE p \in stops : \A k \in stops : p <= k

\* binascii.a2b_base64, the bytes of the digits d parsed: 4 digits -> 3
\* bytes; leftover digits are an error unless padding stopped the parse
a2b_quads(d, stopped) ==
  LET quads == Len(d) \div 4
      left == Len(d) % 4
      nbytes == IF stopped THEN quads * 3 + left - 1 ELSE quads * 3
      digit(i) == b64index(d[i])
  IN IF ~stopped /\ left = 1
       THEN [raised |-> TRUE, value |-> <<>>,
             msg |-> <<"Invalid base64-encoded string: number of data characters cannot be 1 more than a multiple of 4">>]
     ELSE IF ~stopped /\ left # 0
       THEN [raised |-> TRUE, value |-> <<>>, msg |-> <<"Incorrect padding">>]
     ELSE [raised |-> FALSE, msg |-> <<>>,
           value |->
             [j \in 1..nbytes |->
                LET g == (j - 1) \div 3
                    r == (j - 1) % 3
                IN IF r = 0 THEN digit(4*g + 1) * 4 + (digit(4*g + 2) \div 16)
                   ELSE IF r = 1
                     THEN (digit(4*g + 2) % 16) * 16 + (digit(4*g + 3) \div 4)
                   ELSE (digit(4*g + 3) % 4) * 64 + digit(4*g + 4)]]

\* the digits of s up to the end of the parse (other characters skipped)
a2b_digits(s, stop) ==
  SelectSeq(SubSeq(s, 1, IF stop = 0 THEN Len(s) ELSE stop - 1),
            LAMBDA c : b64index(c) < 64)

\* base64.b64decode on the characters s: [raised, msg, value]
b64decode_compute(s) ==
  IF s = None
    THEN [raised |-> TRUE, value |-> <<>>,
          msg |-> <<"argument should be a bytes-like object or ASCII string, not 'NoneType'">>]
  ELSE IF \E i \in 1..Len(s) : s[i] >= 128
    THEN [raised |-> TRUE, value |-> <<>>,
          msg |-> <<"string argument should contain only ASCII characters">>]
  ELSE a2b_quads(a2b_digits(s, a2b_stop(s)), a2b_stop(s) # 0)

\* str.encode('utf-8') for code points below 0x800: one byte below 0x80,
\* two bytes from there on
utf8_encode(m) ==
  LET start(i) == i + Cardinality({k \in 1..(i - 1) : m[k] >= 128})
      total == start(Len(m) + 1) - 1
  IN [j \in 1..total |->
        LET i == CHOOSE x \in 1..Len(m) : start(x) <= j /\ j < start(x + 1)
        IN IF m[i] < 128 THEN m[i]
           ELSE IF j = start(i) THEN 192 + (m[i] \div 64)
           ELSE 128 + (m[i] % 64)]

(***************************************************************************)
(* Bounds of the model.                                                    *)
(***************************************************************************)
\* outcomes of the random source drawn per backend call (key ids, seeds)
NumSeeds == 2

Seeds == 1..NumSeeds

\* rows ever inserted into one table (the cap on its AUTOINCREMENT counter)
MaxIds == 2

\* seconds the database clock advances
MaxClock == 1

(***************************************************************************)
(* State.                                                                  *)
(***************************************************************************)
VARIABLES
  LIBOQS_AVAILABLE,   \* pqc_utils.py module flag, fixed at import
  pqc_utils,          \* the PQCUtils instance: its attributes
  call,               \* the latest PQCUtils operation call and its outcome
  caller,             \* what the calling script or HTTP client holds from
                      \* earlier results
  db,                 \* the SQLite database behind app.py's Database
  session,            \* the client's Flask session
  request,            \* the latest HTTP request
  response,           \* the latest HTTP response
  now                 \* the database clock (CURRENT_TIMESTAMP), in seconds

vars ==
  <<LIBOQS_AVAILABLE, pqc_utils, call, caller, db, session, request, response, now>>

(***************************************************************************)
(* ResourceMonitor (src/pqc_utils.py:23-56).  Readings are thousandths of  *)
(* a MB / of a percent; the ceilings are whole units.                      *)
(***************************************************************************)
\* ResourceMonitor.__init__(max_memory_mb = 50, max_cpu_percent = 80.0)
ResourceMonitor_init(max_memory_mb, max_cpu_percent) ==
  [max_memory_mb |-> max_memory_mb, max_cpu_percent |-> max_cpu_percent]

\* check_resources with >= for >: a reading at its ceiling fails the check
check_resources_inclusive(self, memory_usage, cpu_percent) ==
  IF memory_usage >= self.max_memory_mb * 1000 THEN FALSE
  ELSE IF cpu_percent >= self.max_cpu_percent * 1000 THEN FALSE
  ELSE TRUE

\* ResourceMonitor.check_resources on the two readings it samples
check_resources(self, memory_usage, cpu_percent) ==
  IF memory_usage > self.max_memory_mb * 1000 THEN FALSE
  ELSE IF cpu_percent > self.max_cpu_percent * 1000 THEN FALSE
  ELSE TRUE

\* round(v, 2) of a value in thousandths (ties to even)
round2(v) ==
  LET q == v \div 10
      r == v % 10
  IN 10 * (IF r > 5 \/ (r = 5 /\ q % 2 = 1) THEN q + 1 ELSE q)

\* get_resource_usage reporting the readings in place of the ceilings
get_resource_usage_readings(self, memory_usage, cpu_percent) ==
  [memory_mb |-> round2(memory_usage),
   cpu_percent |-> round2(cpu_percent),
   max_memory_mb |-> round2(memory_usage),
   max_cpu_percent |-> round2(cpu_percent)]

\* ResourceMonitor.get_resource_usage on the two readings it samples
get_resource_usage(self, memory_usage, cpu_percent) ==
  [memory_mb |-> round2(memory_usage),
   cpu_percent |-> round2(cpu_percent),
   max_memory_mb |-> self.max_memory_mb,
   max_cpu_percent |-> self.max_cpu_percent]

(***************************************************************************)
(* os.urandom(n): the n bytes that follow the first `used` bytes of the    *)
(* random stream `seed`.  A backend call draws one stream from Seeds.      *)
(***************************************************************************)
urandom_bytes(n, seed, used) ==
  [i \in 1..n |->
     (seed * 89 + (used + i) * 7 + ((used + i) \div 256) * 13) % 256]

\* (n, used) of the urandom calls of PQCSimulator (src/pqc_utils.py:65-95)
UrandomCalls ==
  {<<800, 0>>, <<1632, 800>>, <<32, 0>>, <<768, 32>>, <<1952, 0>>,
   <<4000, 1952>>, <<2701, 0>>}

PackedBytes == {<<-2, c[1], sd, c[2]>> : c \in UrandomCalls, sd \in Seeds}

PackedTexts == {<<-3, c[1], sd, c[2]>> : c \in UrandomCalls, sd \in Seeds}

\* the elements of each packed value
Content ==
  [d \in PackedBytes \cup PackedTexts |->
     IF d[1] = -2 THEN urandom_bytes(d[2], d[3], d[4])
     ELSE b64encode_compute(urandom_bytes(d[2], d[3], d[4]))]

Unpack(v) == IF v \in DOMAIN Content THEN Content[v] ELSE v

Pack(c) ==
  IF \E d \in DOMAIN Content : Content[d] = c
    THEN CHOOSE d \in DOMAIN Content : Content[d] = c
  ELSE c

urandom(n, seed, used) ==
  IF <<-2, n, seed, used>> \in PackedBytes THEN <<-2, n, seed, used>>
  ELSE Pack(urandom_bytes(n, seed, used))

\* b64encode_compute and b64decode_compute on packed values, tabulated
EncodedOf == [d \in PackedBytes |-> Pack(b64encode_compute(Content[d]))]

PackValue(r) == [r EXCEPT !.value = Pack(r.value)]

DecodedOf == [d \in PackedTexts |-> PackValue(b64decode_compute(Content[d]))]

\* base64.b64encode(b).decode('utf-8')
b64encode(b) ==
  IF b \in PackedBytes THEN EncodedOf[b]
  ELSE Pack(b64encode_compute(Unpack(b)))

\* base64.b64decode(s)
b64decode(s) ==
  IF s \in PackedTexts THEN DecodedOf[s]
  ELSE PackValue(b64decode_compute(Unpack(s)))

(***************************************************************************)
(* PQCSimulator (src/pqc_utils.py:58-101).                                 *)
(***************************************************************************)
PQCSimulator_kyber_keygen(seed) ==
  [public_key |-> urandom(800, seed, 0),
   private_key |-> urandom(1632, seed, 800)]

PQCSimulator_kyber_encaps(public_key, seed) ==
  [shared_secret |-> urandom(32, seed, 0),
   ciphertext |-> urandom(768, seed, 32)]

\* kyber_decap returning the ciphertext it was given as the secret
PQCSimulator_kyber_decap_echo(private_key, ciphertext, seed) ==
  ciphertext

PQCSimulator_kyber_decap(private_key, ciphertext, seed) ==
  urandom(32, seed, 0)

PQCSimulator_dilithium_keygen(seed) ==
  [public_key |-> urandom(1952, seed, 0),
   private_key |-> urandom(4000, seed, 1952)]

PQCSimulator_dilithium_sign(private_key, message, seed) ==
  urandom(2701, seed, 0)

\* dilithium_verify turning down the empty signature
PQCSimulator_dilithium_verify_nonempty(public_key, message, signature) ==
  signature # <<>>

PQCSimulator_dilithium_verify(public_key, message, signature) == TRUE

(***************************************************************************)
(* The liboqs provider is an external library: the gateway's calls on it   *)
(* (src/pqc_utils.py:135-136, 166-168, 197-199, 223-224, 255-257, 287-289) *)
(* are modelled by the contract of a correct KEM and signature scheme.     *)
(* Keypair `k` is the pair (<<75,80,k>>, <<75,83,k>>) for the KEM and      *)
(* (<<68,80,k>>, <<68,83,k>>) for signatures; an encapsulation with        *)
(* randomness r under key k is the ciphertext <<67,k,r>> and the secret    *)
(* <<83,k,r>>.  Each operation is [raised, msg, value].                    *)
(***************************************************************************)
Returned(v) == [raised |-> FALSE, msg |-> <<>>, value |-> v]

Raised(m) == [raised |-> TRUE, msg |-> m, value |-> <<>>]

IsKey(key, t1, t2) ==
  LET b == Unpack(key)
  IN Len(b) = 3 /\ b[1] = t1 /\ b[2] = t2 /\ b[3] >= 1 /\ b[3] <= 255

\* kem.keypair()
KeyEncapsulation_keypair(k) ==
  Returned([public_key |-> <<75, 80, k>>, private_key |-> <<75, 83, k>>])

\* kem.import_public_key(public_key)
KeyEncapsulation_import_public_key(public_key) ==
  IF IsKey(public_key, 75, 80) THEN Returned(public_key)
  ELSE Raised(<<"invalid public key">>)

\* kem.encap_secret(), on the imported public key
KeyEncapsulation_encap_secret(public_key, r) ==
  Returned([shared_secret |-> <<83, public_key[3], r>>,
            ciphertext |-> <<67, public_key[3], r>>])

\* kem.import_secret_key(private_key)
KeyEncapsulation_import_secret_key(private_key) ==
  IF IsKey(private_key, 75, 83) THEN Returned(private_key)
  ELSE Raised(<<"invalid secret key">>)

\* kem.decap_secret(ciphertext), on the imported secret key: the secret of
\* the encapsulation when the ciphertext was made for this key, and an
\* unrelated secret (implicit rejection) for any other well-formed one
KeyEncapsulation_decap_secret(private_key, ciphertext) ==
  LET ct == Unpack(ciphertext)
  IN IF ~(Len(ct) = 3 /\ ct[1] = 67)
       THEN Raised(<<"invalid ciphertext">>)
     ELSE IF ct[2] = private_key[3]
       THEN Returned(<<83, ct[2], ct[3]>>)
     ELSE Returned(<<82, private_key[3], ct[3]>>)

\* sig.keypair()
Signature_keypair(k) ==
  Returned([public_key |-> <<68, 80, k>>, private_key |-> <<68, 83, k>>])

\* sig.import_secret_key(private_key)
Signature_import_secret_key(private_key) ==
  IF IsKey(private_key, 68, 83) THEN Returned(private_key)
  ELSE Raised(<<"invalid secret key">>)

\* sig.sign(message_bytes), on the imported secret key: binds key and message
Signature_sign(private_key, message_bytes) ==
  Returned(<<71, private_key[3]>> \o Unpack(message_bytes))

\* sig.import_public_key(public_key)
Signature_import_public_key(public_key) ==
  IF IsKey(public_key, 68, 80) THEN Returned(public_key)
  ELSE Raised(<<"invalid public key">>)

(***************************************************************************)
(* PQCUtils (src/pqc_utils.py:103-322).  An operation takes the instance   *)
(* `self`, its arguments, the two readings its budget check samples and    *)
(* the random draw of its backend call, and yields its outcome:            *)
(*   checked   what _check_resources returned                              *)
(*   raised    whether the call raised RuntimeError, with message msg      *)
(*   thrower   what raised the exception the call re-raised, and           *)
(*   cause     that exception's message                                    *)
(*   result    the dict it returned                                        *)
(*   performance_metrics   self.performance_metrics after the call         *)
(*   backend   the backend operations it invoked, in order                 *)
(***************************************************************************)
NoResult == [none |-> TRUE]

\* PQCUtils.__init__
PQCUtils_init(liboqs) ==
  [resource_monitor |-> ResourceMonitor_init(50, 80),
   performance_metrics |-> <<>>,
   kyber_alg |-> IF liboqs THEN "Kyber512" ELSE "unset",
   dilithium_alg |-> IF liboqs THEN "Dilithium2" ELSE "unset",
   simulator |-> IF liboqs THEN "unset" ELSE "PQCSimulator"]

\* PQCUtils._check_resources
PQCUtils_check_resources(self, memory_usage, cpu_percent) ==
  check_resources(self.resource_monitor, memory_usage, cpu_percent)

\* raise RuntimeError("Resource constraints exceeded"), before the try block
ResourceExceeded(self) ==
  [checked |-> FALSE, raised |-> TRUE, thrower |-> "budget", cause |-> <<>>,
   msg |-> <<"Resource constraints exceeded">>, result |-> NoResult,
   performance_metrics |-> self.performance_metrics, backend |-> <<>>]

\* Reraised emptying self.performance_metrics on the way out
Reraised_reset(self, prefix, thrower, e, backend) ==
  [checked |-> TRUE, raised |-> TRUE, thrower |-> thrower, cause |-> e,
   msg |-> <<prefix>> \o e, result |-> NoResult,
   performance_metrics |-> <<>>, backend |-> backend]

\* Reraised without str(e) in the message
Reraised_bare(self, prefix, thrower, e, backend) ==
  [checked |-> TRUE, raised |-> TRUE, thrower |-> thrower, cause |-> e,
   msg |-> <<prefix>>, result |-> NoResult,
   performance_metrics |-> self.performance_metrics, backend |-> backend]

\* except Exception as e: raise RuntimeError(f"{prefix}{str(e)}"), where e
\* was raised by `thrower`: "decode" (base64.b64decode or str.encode),
\* "backend" (a backend operation) or "gateway" (the gateway's own statement)
Reraised(self, prefix, thrower, e, backend) ==
  [checked |-> TRUE, raised |-> TRUE, thrower |-> thrower, cause |-> e,
   msg |-> <<prefix>> \o e, result |-> NoResult,
   performance_metrics |-> self.performance_metrics, backend |-> backend]

\* Completed storing every timing under the one key "time"
Completed_one_key(self, result, metric, seconds, backend) ==
  [checked |-> TRUE, raised |-> FALSE, thrower |-> "none", cause |-> <<>>,
   msg |-> <<>>, result |-> result,
   performance_metrics |-> ("time" :> seconds) @@ self.performance_metrics,
   backend |-> backend]

\* self.performance_metrics[metric] = seconds; return result
Completed(self, result, metric, seconds, backend) ==
  [checked |-> TRUE, raised |-> FALSE, thrower |-> "none", cause |-> <<>>,
   msg |-> <<>>, result |-> result,
   performance_metrics |-> (metric :> seconds) @@ self.performance_metrics,
   backend |-> backend]

\* the dict a keypair operation returns
keypair_result(kp, algorithm) ==
  [public_key |-> b64encode(kp.public_key),
   private_key |-> b64encode(kp.private_key),
   algorithm |-> algorithm]

\* the try block of generate_kyber_keypair / generate_dilithium_keypair
\* under liboqs, `kp` being what keypair() did
keypair_liboqs(self, kp, algorithm, metric, seconds, used) ==
  IF kp.raised THEN Reraised(self, "Key generation failed: ", "backend", kp.msg, used)
  ELSE Completed(self, keypair_result(kp.value, algorithm), metric, seconds, used)

\* generate_kyber_keypair going on to the backend whatever the check said
generate_kyber_keypair_unguarded(self, memory_usage, cpu_percent, rnd) ==
  [(IF LIBOQS_AVAILABLE
      THEN keypair_liboqs(self, KeyEncapsulation_keypair(rnd), self.kyber_alg,
             "kyber_keygen_time", 500, <<"KeyEncapsulation", "keypair">>)
    ELSE Completed(self,
           keypair_result(PQCSimulator_kyber_keygen(rnd), "Kyber512 (Simulated)"),
           "kyber_keygen_time", 500, <<"kyber_keygen">>))
   EXCEPT !.checked = PQCUtils_check_resources(self, memory_usage, cpu_percent)]

generate_kyber_keypair(self, memory_usage, cpu_percent, rnd) ==
  IF ~PQCUtils_check_resources(self, memory_usage, cpu_percent)
    THEN ResourceExceeded(self)
  ELSE IF LIBOQS_AVAILABLE
    THEN keypair_liboqs(self, KeyEncapsulation_keypair(rnd), self.kyber_alg,
           "kyber_keygen_time", 500, <<"KeyEncapsulation", "keypair">>)
  ELSE Completed(self,
         keypair_result(PQCSimulator_kyber_keygen(rnd), "Kyber512 (Simulated)"),
         "kyber_keygen_time", 500, <<"kyber_keygen">>)

\* the dict kyber_encapsulate returns
encaps_result(enc) ==
  [shared_secret |-> b64encode(enc.shared_secret),
   ciphertext |-> b64encode(enc.ciphertext)]

\* kyber_encapsulate's try block going on with b"" when b64decode raised
kyber_encapsulate_try_lenient(self, public_key, rnd) ==
  LET imp == KeyEncapsulation_import_public_key(public_key.value)
  IN IF LIBOQS_AVAILABLE
       THEN Reraised(self, "Encapsulation failed: ", "backend", imp.msg,
                     <<"KeyEncapsulation", "import_public_key">>)
     ELSE Completed(self,
            encaps_result(PQCSimulator_kyber_encaps(public_key.value, rnd)),
            "kyber_encaps_time", 300, <<"kyber_encaps">>)

\* the try block of kyber_encapsulate, `public_key` being what b64decode did
kyber_encapsulate_try(self, public_key, rnd) ==
  LET prefix == "Encapsulation failed: "
      imp == KeyEncapsulation_import_public_key(public_key.value)
      enc == KeyEncapsulation_encap_secret(Unpack(public_key.value), rnd)
  IN IF public_key.raised THEN Reraised(self, prefix, "decode", public_key.msg, <<>>)
     ELSE IF LIBOQS_AVAILABLE
       THEN IF imp.raised
              THEN Reraised(self, prefix, "backend", imp.msg,
                     <<"KeyEncapsulation", "import_public_key">>)
            ELSE IF enc.raised
              THEN Reraised(self, prefix, "backend", enc.msg,
                     <<"KeyEncapsulation", "import_public_key", "encap_secret">>)
            ELSE Completed(self, encaps_result(enc.value),
                   "kyber_encaps_time", 300,
                   <<"KeyEncapsulation", "import_public_key", "encap_secret">>)
     ELSE Completed(self,
            encaps_result(PQCSimulator_kyber_encaps(public_key.value, rnd)),
            "kyber_encaps_time", 300, <<"kyber_encaps">>)

kyber_encapsulate(self, public_key_b64, memory_usage, cpu_percent, rnd) ==
  IF ~PQCUtils_check_resources(self, memory_usage, cpu_percent)
    THEN ResourceExceeded(self)
  ELSE kyber_encapsulate_try(self, b64decode(public_key_b64), rnd)

\* the try block of kyber_decap on the decoded arguments
kyber_decap_try(self, private_key, ciphertext, rnd) ==
  LET prefix == "Decapsulation failed: "
      imp == KeyEncapsulation_import_secret_key(private_key.value)
      dec == KeyEncapsulation_decap_secret(Unpack(private_key.value),
                                           ciphertext.value)
  IN IF private_key.raised THEN Reraised(self, prefix, "decode", private_key.msg, <<>>)
     ELSE IF ciphertext.raised THEN Reraised(self, prefix, "decode", ciphertext.msg, <<>>)
     ELSE IF LIBOQS_AVAILABLE
       THEN IF imp.raised
              THEN Reraised(self, prefix, "backend", imp.msg,
                     <<"KeyEncapsulation", "import_secret_key">>)
            ELSE IF dec.raised
              THEN Reraised(self, prefix, "backend", dec.msg,
                     <<"KeyEncapsulation", "import_secret_key", "decap_secret">>)
            ELSE Completed(self, [shared_secret |-> b64encode(dec.value)],
                   "kyber_decap_time", 200,
                   <<"KeyEncapsulation", "import_secret_key", "decap_secret">>)
     ELSE Completed(self,
            [shared_secret |->
               b64encode(PQCSimulator_kyber_decap(private_key.value,
                                                  ciphertext.value, rnd))],
            "kyber_decap_time", 200, <<"kyber_decap">>)

\* kyber_decap decoding its two arguments into each other's place
kyber_decap_swapped(self, private_key_b64, ciphertext_b64, memory_usage, cpu_percent, rnd) ==
  IF ~PQCUtils_check_resources(self, memory_usage, cpu_percent)
    THEN ResourceExceeded(self)
  ELSE kyber_decap_try(self, b64decode(ciphertext_b64),
                       b64decode(private_key_b64), rnd)

kyber_decap(self, private_key_b64, ciphertext_b64, memory_usage, cpu_percent, rnd) ==
  IF ~PQCUtils_check_resources(self, memory_usage, cpu_percent)
    THEN ResourceExceeded(self)
  ELSE kyber_decap_try(self, b64decode(private_key_b64),
                       b64decode(ciphertext_b64), rnd)

\* generate_dilithium_keypair going to the simulator whatever was imported
generate_dilithium_keypair_simulated(self, memory_usage, cpu_percent, rnd) ==
  IF ~PQCUtils_check_resources(self, memory_usage, cpu_percent)
    THEN ResourceExceeded(self)
  ELSE Completed(self,
         keypair_result(PQCSimulator_dilithium_keygen(rnd),
                        "Dilithium2 (Simulated)"),
         "dilithium_keygen_time", 1200, <<"dilithium_keygen">>)

generate_dilithium_keypair(self, memory_usage, cpu_percent, rnd) ==
  IF ~PQCUtils_check_resources(self, memory_usage, cpu_percent)
    THEN ResourceExceeded(self)
  ELSE IF LIBOQS_AVAILABLE
    THEN keypair_liboqs(self, Signature_keypair(rnd), self.dilithium_alg,
           "dilithium_keygen_time", 1200, <<"Signature", "keypair">>)
  ELSE Completed(self,
         keypair_result(PQCSimulator_dilithium_keygen(rnd),
                        "Dilithium2 (Simulated)"),
         "dilithium_keygen_time", 1200, <<"dilithium_keygen">>)

\* message.encode('utf-8'): [raised, msg, value]
str_encode(message) ==
  IF message = None
    THEN Raised(<<"'NoneType' object has no attribute 'encode'">>)
  ELSE Returned(utf8_encode(message))

\* the try block of dilithium_sign on the decoded key and encoded message
dilithium_sign_try(self, private_key, message, message_bytes, rnd) ==
  LET prefix == "Signing failed: "
      imp == Signature_import_secret_key(private_key.value)
      sg == Signature_sign(Unpack(private_key.value), message_bytes.value)
  IN IF private_key.raised THEN Reraised(self, prefix, "decode", private_key.msg, <<>>)
     ELSE IF message_bytes.raised
       THEN Reraised(self, prefix, "decode", message_bytes.msg, <<>>)
     ELSE IF LIBOQS_AVAILABLE
       THEN IF imp.raised
              THEN Reraised(self, prefix, "backend", imp.msg,
                     <<"Signature", "import_secret_key">>)
            ELSE IF sg.raised
              THEN Reraised(self, prefix, "backend", sg.msg,
                     <<"Signature", "import_secret_key", "sign">>)
            ELSE Completed(self,
                   [signature |-> b64encode(sg.value), message |-> message],
                   "dilithium_sign_time", 800,
                   <<"Signature", "import_secret_key", "sign">>)
     ELSE Completed(self,
            [signature |->
               b64encode(PQCSimulator_dilithium_sign(private_key.value,
                                                     message_bytes.value, rnd)),
             message |-> message],
            "dilithium_sign_time", 800, <<"dilithium_sign">>)

dilithium_sign(self, private_key_b64, message, memory_usage, cpu_percent, rnd) ==
  IF ~PQCUtils_check_resources(self, memory_usage, cpu_percent)
    THEN ResourceExceeded(self)
  ELSE dilithium_sign_try(self, b64decode(private_key_b64), message,
                          str_encode(message), rnd)

\* the try block of dilithium_verify on the decoded arguments.  Line 289
\* names message_message_bytes, which is bound nowhere: under liboqs the
\* argument list of sig.verify raises NameError before verify is called.
dilithium_verify_try(self, public_key, message, message_bytes, signature) ==
  LET prefix == "Verification failed: "
      imp == Signature_import_public_key(public_key.value)
  IN IF public_key.raised THEN Reraised(self, prefix, "decode", public_key.msg, <<>>)
     ELSE IF message_bytes.raised
       THEN Reraised(self, prefix, "decode", message_bytes.msg, <<>>)
     ELSE IF signature.raised THEN Reraised(self, prefix, "decode", signature.msg, <<>>)
     ELSE IF LIBOQS_AVAILABLE
       THEN IF imp.raised
              THEN Reraised(self, prefix, "backend", imp.msg,
                     <<"Signature", "import_public_key">>)
            ELSE Reraised(self, prefix, "gateway", <<"name 'message_message_bytes' is not defined">>,
                   <<"Signature", "import_public_key">>)
     ELSE Completed(self,
            [is_valid |->
               PQCSimulator_dilithium_verify(public_key.value,
                                             message_bytes.value, signature.value),
             message |-> message],
            "dilithium_verify_time", 400, <<"dilithium_verify">>)

\* dilithium_verify decoding its arguments before it checks the budget
dilithium_verify_decode_first(self, public_key_b64, message, signature_b64, memory_usage, cpu_percent) ==
  IF b64decode(public_key_b64).raised \/ b64decode(signature_b64).raised
    THEN [dilithium_verify_try(self, b64decode(public_key_b64), message,
                               str_encode(message), b64decode(signature_b64))
            EXCEPT !.checked = PQCUtils_check_resources(self, memory_usage,
                                                        cpu_percent)]
  ELSE IF ~PQCUtils_check_resources(self, memory_usage, cpu_percent)
    THEN ResourceExceeded(self)
  ELSE dilithium_verify_try(self, b64decode(public_key_b64), message,
                            str_encode(message), b64decode(signature_b64))

dilithium_verify(self, public_key_b64, message, signature_b64, memory_usage, cpu_percent) ==
  IF ~PQCUtils_check_resources(self, memory_usage, cpu_percent)
    THEN ResourceExceeded(self)
  ELSE dilithium_verify_try(self, b64decode(public_key_b64), message,
                            str_encode(message), b64decode(signature_b64))

\* PQCUtils.get_performance_metrics: a copy of the dict, updated with a
\* fresh resource reading
get_performance_metrics(self, memory_usage, cpu_percent) ==
  LET usage == get_resource_usage(self.resource_monitor, memory_usage, cpu_percent)
  IN ("memory_mb" :> usage.memory_mb) @@ ("cpu_percent" :> usage.cpu_percent)
     @@ ("max_memory_mb" :> usage.max_memory_mb)
     @@ ("max_cpu_percent" :> usage.max_cpu_percent)
     @@ self.performance_metrics

(***************************************************************************)
(* Database (src/database.py).  A table is the sequence of its rows in     *)
(* insertion order; sqlite_sequence holds the AUTOINCREMENT counters,      *)
(* which DELETE leaves alone.  NULL is None.  A store takes the database   *)
(* `d`, its arguments, the clock and whether SQLite fails the statement    *)
(* (`locked`), and is [raised, msg, value] with value the database after.  *)
(***************************************************************************)
\* Database.init_database on a new file
Database_init ==
  [kyber_operations |-> <<>>, dilithium_operations |-> <<>>,
   performance_metrics |-> <<>>,
   sqlite_sequence |-> [kyber_operations |-> 0, dilithium_operations |-> 0,
                        performance_metrics |-> 0]]

\* INSERT OR REPLACE in place of INSERT: the new row takes the place of
\* the rows of the table
insert_or_replace(d, table, row, timestamp, locked) ==
  IF locked THEN Raised(<<"database is locked">>)
  ELSE Returned(
         [d EXCEPT
            ![table] = <<("id" :> (d.sqlite_sequence[table] + 1))
                         @@ ("timestamp" :> timestamp) @@ row>>,
            !.sqlite_sequence[table] = @ + 1])

\* INSERT INTO table: id from AUTOINCREMENT, timestamp from CURRENT_TIMESTAMP
insert(d, table, row, timestamp, locked) ==
  IF locked THEN Raised(<<"database is locked">>)
  ELSE Returned(
         [d EXCEPT
            ![table] = Append(@, ("id" :> (d.sqlite_sequence[table] + 1))
                                 @@ ("timestamp" :> timestamp) @@ row),
            !.sqlite_sequence[table] = @ + 1])

kyber_row(operation_type, public_key, private_key, ciphertext, shared_secret) ==
  [operation_type |-> operation_type, public_key |-> public_key,
   private_key |-> private_key, ciphertext |-> ciphertext,
   shared_secret |-> shared_secret]

\* is_valid is the SQL integer <<1>> or <<0>>, or NULL
dilithium_row(operation_type, public_key, private_key, message, signature, is_valid) ==
  [operation_type |-> operation_type, public_key |-> public_key,
   private_key |-> private_key, message |-> message,
   signature |-> signature, is_valid |-> is_valid]

store_kyber_keygen(d, public_key, private_key, timestamp, locked) ==
  insert(d, "kyber_operations",
         kyber_row("keygen", public_key, private_key, None, None),
         timestamp, locked)

store_kyber_encaps(d, public_key, ciphertext, shared_secret, timestamp, locked) ==
  insert(d, "kyber_operations",
         kyber_row("encaps", public_key, None, ciphertext, shared_secret),
         timestamp, locked)

store_kyber_decap(d, private_key, ciphertext, shared_secret, timestamp, locked) ==
  insert(d, "kyber_operations",
         kyber_row("decap", None, private_key, ciphertext, shared_secret),
         timestamp, locked)

store_dilithium_keygen(d, public_key, private_key, timestamp, locked) ==
  insert(d, "dilithium_operations",
         dilithium_row("keygen", public_key, private_key, None, None, None),
         timestamp, locked)

store_dilithium_sign(d, private_key, message, signature, timestamp, locked) ==
  insert(d, "dilithium_operations",
         dilithium_row("sign", None, private_key, message, signature, None),
         timestamp, locked)

store_dilithium_verify(d, public_key, message, signature, is_valid, timestamp, locked) ==
  insert(d, "dilithium_operations",
         dilithium_row("verify", public_key, None, message, signature,
                       IF is_valid THEN <<1>> ELSE <<0>>),
         timestamp, locked)

\* store_performance_metric binding the two readings to each other's column
store_performance_metric_swapped(d, operation_type, execution_time_ms, memory_usage_mb, cpu_usage_percent, timestamp, locked) ==
  insert(d, "performance_metrics",
         [operation_type |-> operation_type,
          execution_time_ms |-> execution_time_ms,
          memory_usage_mb |-> cpu_usage_percent,
          cpu_usage_percent |-> memory_usage_mb],
         timestamp, locked)

store_performance_metric(d, operation_type, execution_time_ms, memory_usage_mb, cpu_usage_percent, timestamp, locked) ==
  insert(d, "performance_metrics",
         [operation_type |-> operation_type,
          execution_time_ms |-> execution_time_ms,
          memory_usage_mb |-> memory_usage_mb,
          cpu_usage_percent |-> cpu_usage_percent],
         timestamp, locked)

\* clear_database without its DELETE FROM performance_metrics
clear_database_operations(d, locked) ==
  IF locked THEN Raised(<<"database is locked">>)
  ELSE Returned([d EXCEPT !.kyber_operations = <<>>,
                          !.dilithium_operations = <<>>])

\* Database.clear_database
clear_database(d, locked) ==
  IF locked THEN Raised(<<"database is locked">>)
  ELSE Returned([d EXCEPT !.kyber_operations = <<>>,
                          !.dilithium_operations = <<>>,
                          !.performance_metrics = <<>>])

\* The orders in which SELECT ... ORDER BY timestamp DESC may return `rows`:
\* timestamp is the only sort key, so rows of one timestamp (CURRENT_TIMESTAMP
\* counts whole seconds) come in an order SQL leaves to the engine.
order_by_timestamp_desc(rows) ==
  {[i \in 1..Len(rows) |-> rows[p[i]]] :
     p \in {q \in [1..Len(rows) -> 1..Len(rows)] :
              /\ \A i, j \in 1..Len(rows) : i # j => q[i] # q[j]
              /\ \A i, j \in 1..Len(rows) :
                   i < j => rows[q[i]].timestamp >= rows[q[j]].timestamp}}

\* LIMIT ? on a result
sql_limit(rows, limit) ==
  SubSeq(rows, 1, IF limit < Len(rows) THEN limit ELSE Len(rows))

\* Database.get_recent_kyber_operations: the lists it may return
get_recent_kyber_operations(d, limit) ==
  {sql_limit(r, limit) : r \in order_by_timestamp_desc(d.kyber_operations)}

\* Database.get_recent_dilithium_operations: the lists it may return
get_recent_dilithium_operations(d, limit) ==
  {sql_limit(r, limit) : r \in order_by_timestamp_desc(d.dilithium_operations)}

\* SUM(execution_time_ms) over rows
RECURSIVE SUM(_)
SUM(rows) ==
  IF rows = <<>> THEN 0 ELSE Head(rows).execution_time_ms + SUM(Tail(rows))

\* AVG(execution_time_ms) over a group, as the fraction sum / count
AVG(rows) == [sum |-> SUM(rows), count |-> Len(rows)]

\* round(avg_time, 2): the multiple of 10 thousandths nearest to the
\* fraction, a tie going to the even one
round_avg_time(avg) ==
  LET unit == 10 * avg.count
      q == avg.sum \div unit
      r == avg.sum % unit
  IN IF 2 * r < unit THEN 10 * q
     ELSE IF 2 * r > unit THEN 10 * (q + 1)
     ELSE IF q % 2 = 0 THEN 10 * q ELSE 10 * (q + 1)

\* the rows of GROUP BY operation_type for one operation_type
group_by_operation_type(rows, operation_type) ==
  SelectSeq(rows, LAMBDA r : r.operation_type = operation_type)

\* get_performance_stats taking COUNT(*) over the whole table
get_performance_stats_ungrouped(d) ==
  [k \in {d.performance_metrics[i].operation_type :
            i \in DOMAIN d.performance_metrics} |->
     [avg_time_ms |->
        round_avg_time(AVG(group_by_operation_type(d.performance_metrics, k))),
      count |-> Len(d.performance_metrics)]]

\* Database.get_performance_stats: operation_type -> avg_time_ms, count
get_performance_stats(d) ==
  [k \in {d.performance_metrics[i].operation_type :
            i \in DOMAIN d.performance_metrics} |->
     [avg_time_ms |->
        round_avg_time(AVG(group_by_operation_type(d.performance_metrics, k))),
      count |-> Len(group_by_operation_type(d.performance_metrics, k))]]

(***************************************************************************)
(* Inputs.                                                                 *)
(***************************************************************************)
\* (memory, cpu) readings a resource sample may return
Readings == {<<50000, 80000>>, <<31254, 80001>>}

\* "" (base64 of the empty byte string, which is no key) and "Q" (not base64)
Junk == {<<>>, <<81>>}

\* "" and a message with a non-ASCII character
Messages == {<<>>, <<104, 233>>}

(***************************************************************************)
(* A script driving one PQCUtils instance directly, as src/demo.py and     *)
(* src/test_app.py do.  It keeps the latest keypair (`keys`), and what it  *)
(* encapsulated or signed with that keypair.                               *)
(***************************************************************************)
NoKeys ==
  [have |-> FALSE, family |-> "none", public_key |-> None, private_key |-> None]

NoEncaps ==
  [have |-> FALSE, public_key |-> None, ciphertext |-> None, shared_secret |-> None]

NoSign ==
  [have |-> FALSE, private_key |-> None, message |-> None, signature |-> None]

NoSession ==
  [kyber_public_key |-> None, kyber_private_key |-> None,
   dilithium_public_key |-> None, dilithium_private_key |-> None]

NoResponse ==
  [status |-> 0, success |-> FALSE, error |-> <<>>, result |-> NoResult,
   execution_time_ms |-> 0]

NoSample == [taken |-> FALSE, memory_usage |-> 0, cpu_percent |-> 0]

NoRequest ==
  [endpoint |-> "none", body |-> "absent", data |-> <<>>, execution_time |-> 0,
   sample |-> NoSample, locked |-> "none"]

NoCall ==
  [op |-> "none", args |-> <<>>, checked |-> TRUE, raised |-> FALSE,
   thrower |-> "none", cause |-> <<>>, msg |-> <<>>, result |-> NoResult,
   backend |-> <<>>]

Called(op, args, o) ==
  [op |-> op, args |-> args, checked |-> o.checked, raised |-> o.raised,
   thrower |-> o.thrower, cause |-> o.cause, msg |-> o.msg,
   result |-> o.result, backend |-> o.backend]

KeyArgs(family, field) ==
  Junk \cup (IF caller.keys.have /\ caller.keys.family = family
               THEN {caller.keys[field]} ELSE {})

\* the argument pairs a call is tried on: at most one of the two is junk,
\* or both are the same junk
ArgPairs(A, B) ==
  {t \in A \X B : t[1] \notin Junk \/ t[2] \notin Junk \/ t[1] = t[2]}

\* what the script keeps of a call's result
Kept(op, args, o) ==
  IF o.raised THEN caller
  ELSE IF op = "generate_kyber_keypair" \/ op = "generate_dilithium_keypair"
    THEN [keys |-> [have |-> TRUE,
                    family |-> IF op = "generate_kyber_keypair" THEN "kyber"
                               ELSE "dilithium",
                    public_key |-> o.result.public_key,
                    private_key |-> o.result.private_key],
          encaps_result |-> NoEncaps, sign_result |-> NoSign]
  ELSE IF op = "kyber_encapsulate" /\ args[1] = caller.keys.public_key
    THEN [caller EXCEPT !.encaps_result =
            [have |-> TRUE, public_key |-> args[1],
             ciphertext |-> o.result.ciphertext,
             shared_secret |-> o.result.shared_secret]]
  ELSE IF op = "dilithium_sign" /\ args[1] = caller.keys.private_key
    THEN [caller EXCEPT !.sign_result =
            [have |-> TRUE, private_key |-> args[1], message |-> args[2],
             signature |-> o.result.signature]]
  ELSE caller

\* one call of operation `op` on `args` with outcome `o`
Perform(op, args, o) ==
  /\ pqc_utils' = [pqc_utils EXCEPT !.performance_metrics = o.performance_metrics]
  /\ call' = Called(op, args, o)
  /\ caller' = Kept(op, args, o)
  /\ UNCHANGED <<LIBOQS_AVAILABLE, db, session, request, response, now>>

\* the state once pqc_utils.py is imported and a PQCUtils is constructed
\* (src/pqc_utils.py:9-14, 106-114; src/app.py:11-12 add the Database)
Init ==
  /\ LIBOQS_AVAILABLE \in BOOLEAN
  /\ pqc_utils = PQCUtils_init(LIBOQS_AVAILABLE)
  /\ call = NoCall
  /\ caller = [keys |-> NoKeys, encaps_result |-> NoEncaps, sign_result |-> NoSign]
  /\ db = Database_init
  /\ session = NoSession
  /\ request = NoRequest
  /\ response = NoResponse
  /\ now = 0

CallGenerateKyberKeypair ==
  \E rd \in Readings, rnd \in Seeds :
    Perform("generate_kyber_keypair", <<>>,
            generate_kyber_keypair(pqc_utils, rd[1], rd[2], rnd))

CallKyberEncapsulate ==
  \E pk \in KeyArgs("kyber", "public_key"), rd \in Readings, rnd \in Seeds :
    Perform("kyber_encapsulate", <<pk>>,
            kyber_encapsulate(pqc_utils, pk, rd[1], rd[2], rnd))

CallKyberDecap ==
  \E a \in ArgPairs(KeyArgs("kyber", "private_key"),
                     Junk \cup (IF caller.encaps_result.have
                                 THEN {caller.encaps_result.ciphertext} ELSE {})),
     rd \in Readings, rnd \in Seeds :
    Perform("kyber_decap", a,
            kyber_decap(pqc_utils, a[1], a[2], rd[1], rd[2], rnd))

CallGenerateDilithiumKeypair ==
  \E rd \in Readings, rnd \in Seeds :
    Perform("generate_dilithium_keypair", <<>>,
            generate_dilithium_keypair(pqc_utils, rd[1], rd[2], rnd))

CallDilithiumSign ==
  \E sk \in KeyArgs("dilithium", "private_key"), m \in Messages,
     rd \in Readings, rnd \in Seeds :
    Perform("dilithium_sign", <<sk, m>>,
            dilithium_sign(pqc_utils, sk, m, rd[1], rd[2], rnd))

CallDilithiumVerify ==
  \E a \in ArgPairs(KeyArgs("dilithium", "public_key"),
                     Junk \cup (IF caller.sign_result.have
                                 THEN {caller.sign_result.signature} ELSE {})),
     m \in Messages, rd \in Readings :
    Perform("dilithium_verify", <<a[1], m, a[2]>>,
            dilithium_verify(pqc_utils, a[1], m, a[2], rd[1], rd[2]))

CallGetPerformanceMetrics ==
  \E rd \in Readings :
    /\ call' = [NoCall EXCEPT !.op = "get_performance_metrics",
                 !.result = get_performance_metrics(pqc_utils, rd[1], rd[2])]
    /\ UNCHANGED <<LIBOQS_AVAILABLE, pqc_utils, caller, db, session, request,
                   response, now>>

NextGateway ==
  \/ CallGenerateKyberKeypair
  \/ CallKyberEncapsulate
  \/ CallKyberDecap
  \/ CallGenerateDilithiumKeypair
  \/ CallDilithiumSign
  \/ CallDilithiumVerify
  \/ CallGetPerformanceMetrics

SpecGateway == Init /\ [][NextGateway]_vars

(***************************************************************************)
(* The Flask application (src/app.py).  A request is                       *)
(*   endpoint  its route                                                   *)
(*   body      "absent" (no JSON sent), "null" (the JSON null) or "object" *)
(*   data      the JSON object, a function from its keys to their values   *)
(* and, filled in as it is handled,                                        *)
(*   execution_time  what the handler measured around the gateway call,    *)
(*                   in thousandths of a millisecond                       *)
(*   sample    the readings get_performance_metrics sampled                *)
(*   locked    the store SQLite failed: "none", "operation" or "metric"    *)
(* One client is modelled; it keeps what earlier responses gave it.        *)
(***************************************************************************)
\* the sets the handling of a request draws its measurements from
Durations == {1235}

Samples == {<<31254, 12500>>, <<50001, 80001>>}

Locked == {"none", "operation", "metric"}

\* not v, for a value of a JSON field
falsy(v) == v = None \/ v = <<>>

\* data.get(key)
dict_get(data, key) == IF key \in DOMAIN data THEN data[key] ELSE None

\* data = request.get_json() and the data.get calls that follow it
get_json(req) ==
  IF req.body = "absent"
    THEN Raised(<<"415 Unsupported Media Type: Did not attempt to load JSON data because the request Content-Type was not 'application/json'.">>)
  ELSE IF req.body = "null"
    THEN Raised(<<"'NoneType' object has no attribute 'get'">>)
  ELSE Returned(req.data)

\* error_response without the 400: Flask answers 200
error_response_ok(error) ==
  [status |-> 200, success |-> FALSE, error |-> error, result |-> NoResult,
   execution_time_ms |-> 0]

\* jsonify({'success': False, 'error': error}), 400
error_response(error) ==
  [status |-> 400, success |-> FALSE, error |-> error, result |-> NoResult,
   execution_time_ms |-> 0]

\* jsonify({'success': True, 'result': result,
\*          'execution_time_ms': round(execution_time, 2)})
success_response(result, execution_time) ==
  [status |-> 200, success |-> TRUE, error |-> <<>>, result |-> result,
   execution_time_ms |-> round2(execution_time)]

\* the handler returns `resp` having invoked the gateway as `c` (NoCall when
\* it did not), leaving the gateway's metrics `pm`, the database `d` and the
\* session `sess`; the client keeps `kept`
Answer(req, c, pm, d, sess, resp, kept) ==
  /\ request' = req
  /\ call' = c
  /\ pqc_utils' = [pqc_utils EXCEPT !.performance_metrics = pm]
  /\ db' = d
  /\ session' = sess
  /\ response' = resp
  /\ caller' = kept
  /\ UNCHANGED <<LIBOQS_AVAILABLE, now>>

\* a return or an exception before the gateway is called
Rejected(req, error) ==
  Answer(req, NoCall, pqc_utils.performance_metrics, db, session,
         error_response(error), caller)

\* the statements after db.store_<operation>, which did `stored`:
\* metrics = pqc_utils.get_performance_metrics(); db.store_performance_metric;
\* the session assignments of a keygen handler; the response
Recorded(kind, req, c, o, stored, sess, kept) ==
  LET metrics == get_performance_metrics(
                   [pqc_utils EXCEPT !.performance_metrics = o.performance_metrics],
                   req.sample.memory_usage, req.sample.cpu_percent)
      sampled == store_performance_metric(stored.value, kind, req.execution_time,
                   metrics["memory_mb"], metrics["cpu_percent"], now,
                   req.locked = "metric")
  IN IF stored.raised
       THEN Answer([req EXCEPT !.sample = NoSample], c, o.performance_metrics,
                   db, session, error_response(stored.msg), caller)
     ELSE IF sampled.raised
       THEN Answer(req, c, o.performance_metrics, stored.value, session,
                   error_response(sampled.msg), caller)
     ELSE Answer(req, c, o.performance_metrics, sampled.value, sess,
                 success_response(o.result, req.execution_time), kept)

\* the db.store_<operation> call of the handler that stores its sample
\* under `kind`, on the arguments and the result of its gateway call
store_operation(kind, d, args, result, timestamp, locked) ==
  CASE kind = "kyber_keygen" ->
         store_kyber_keygen(d, result.public_key, result.private_key,
                            timestamp, locked)
    [] kind = "kyber_encaps" ->
         store_kyber_encaps(d, args[1], result.ciphertext, result.shared_secret,
                            timestamp, locked)
    [] kind = "kyber_decap" ->
         store_kyber_decap(d, args[1], args[2], result.shared_secret,
                           timestamp, locked)
    [] kind = "dilithium_keygen" ->
         store_dilithium_keygen(d, result.public_key, result.private_key,
                                timestamp, locked)
    [] kind = "dilithium_sign" ->
         store_dilithium_sign(d, args[1], args[2], result.signature,
                              timestamp, locked)
    [] kind = "dilithium_verify" ->
         store_dilithium_verify(d, args[1], args[2], args[3], result.is_valid,
                                timestamp, locked)

\* the session after the handler's assignments: the keygen handlers keep
\* the keypair in it
session_after(kind, result) ==
  IF kind = "kyber_keygen"
    THEN [session EXCEPT !.kyber_public_key = result.public_key,
                         !.kyber_private_key = result.private_key]
  ELSE IF kind = "dilithium_keygen"
    THEN [session EXCEPT !.dilithium_public_key = result.public_key,
                         !.dilithium_private_key = result.private_key]
  ELSE session

\* a crypto handler from its gateway call on, `o` being the call's outcome
Served(kind, req, op, args, o) ==
  IF o.raised
    THEN Answer(req, Called(op, args, o), o.performance_metrics, db, session,
                error_response(o.msg), caller)
  ELSE \E t \in Durations, u \in Samples, l \in Locked :
         Recorded(kind,
                  [req EXCEPT !.execution_time = t, !.locked = l,
                              !.sample = [taken |-> TRUE, memory_usage |-> u[1],
                                          cpu_percent |-> u[2]]],
                  Called(op, args, o), o,
                  store_operation(kind, db, args, o.result, now, l = "operation"),
                  session_after(kind, o.result), Kept(op, args, o))

\* the bodies a client sends to an endpoint: none, null, the empty object
\* and `objects`
Requests(endpoint, objects) ==
  {[NoRequest EXCEPT !.endpoint = endpoint, !.body = b] : b \in {"absent", "null"}}
  \cup {[NoRequest EXCEPT !.endpoint = endpoint, !.body = "object", !.data = v] :
          v \in {<<>>} \cup objects}

\* the requests handled while the AUTOINCREMENT counters are below MaxIds
Open == \A t \in DOMAIN db.sqlite_sequence : db.sqlite_sequence[t] < MaxIds

\* POST /api/kyber/keygen
api_kyber_keygen ==
  /\ Open
  /\ \E rd \in Readings, rnd \in Seeds :
       Served("kyber_keygen", [NoRequest EXCEPT !.endpoint = "/api/kyber/keygen"],
              "generate_kyber_keypair", <<>>,
              generate_kyber_keypair(pqc_utils, rd[1], rd[2], rnd))

\* kyber_encaps without its `if not public_key` return
kyber_encaps_unvalidated(req, public_key) ==
  \E rd \in Readings, rnd \in Seeds :
    Served("kyber_encaps", req, "kyber_encapsulate", <<public_key>>,
           kyber_encapsulate(pqc_utils, public_key, rd[1], rd[2], rnd))

\* the handler of POST /api/kyber/encaps on a request with a body
kyber_encaps(req, public_key) ==
  IF falsy(public_key) THEN Rejected(req, <<"Public key is required">>)
  ELSE \E rd \in Readings, rnd \in Seeds :
         Served("kyber_encaps", req, "kyber_encapsulate", <<public_key>>,
                kyber_encapsulate(pqc_utils, public_key, rd[1], rd[2], rnd))

\* POST /api/kyber/encaps
api_kyber_encaps ==
  /\ Open
  /\ \E req \in Requests("/api/kyber/encaps",
                         {[public_key |-> v] : v \in KeyArgs("kyber", "public_key")}) :
       IF get_json(req).raised THEN Rejected(req, get_json(req).msg)
       ELSE kyber_encaps(req, dict_get(req.data, "public_key"))

\* the handler of POST /api/kyber/decap on a request with a body
kyber_decap_handler(req, private_key, ciphertext) ==
  IF falsy(private_key) \/ falsy(ciphertext)
    THEN Rejected(req, <<"Private key and ciphertext are required">>)
  ELSE \E rd \in Readings, rnd \in Seeds :
         Served("kyber_decap", req, "kyber_decap", <<private_key, ciphertext>>,
                kyber_decap(pqc_utils, private_key, ciphertext, rd[1], rd[2], rnd))

\* POST /api/kyber/decap
api_kyber_decap ==
  /\ Open
  /\ \E req \in Requests("/api/kyber/decap",
         {[private_key |-> a[1], ciphertext |-> a[2]] :
            a \in ArgPairs(KeyArgs("kyber", "private_key"),
                           Junk \cup (IF caller.encaps_result.have
                                       THEN {caller.encaps_result.ciphertext}
                                       ELSE {}))}) :
       IF get_json(req).raised THEN Rejected(req, get_json(req).msg)
       ELSE kyber_decap_handler(req, dict_get(req.data, "private_key"),
                                dict_get(req.data, "ciphertext"))

\* POST /api/dilithium/keygen
api_dilithium_keygen ==
  /\ Open
  /\ \E rd \in Readings, rnd \in Seeds :
       Served("dilithium_keygen",
              [NoRequest EXCEPT !.endpoint = "/api/dilithium/keygen"], "generate_dilithium_keypair", <<>>,
              generate_dilithium_keypair(pqc_utils, rd[1], rd[2], rnd))

\* the handler of POST /api/dilithium/sign on a request with a body
dilithium_sign_handler(req, private_key, message) ==
  IF falsy(private_key) \/ falsy(message)
    THEN Rejected(req, <<"Private key and message are required">>)
  ELSE \E rd \in Readings, rnd \in Seeds :
         Served("dilithium_sign", req, "dilithium_sign", <<private_key, message>>,
                dilithium_sign(pqc_utils, private_key, message, rd[1], rd[2], rnd))

\* POST /api/dilithium/sign
api_dilithium_sign ==
  /\ Open
  /\ \E req \in Requests("/api/dilithium/sign",
         {[private_key |-> sk, message |-> m] :
            sk \in KeyArgs("dilithium", "private_key"), m \in Messages}) :
       IF get_json(req).raised THEN Rejected(req, get_json(req).msg)
       ELSE dilithium_sign_handler(req, dict_get(req.data, "private_key"),
                                   dict_get(req.data, "message"))

\* the handler of POST /api/dilithium/verify on a request with a body
dilithium_verify_handler(req, public_key, message, signature) ==
  IF falsy(public_key) \/ falsy(message) \/ falsy(signature)
    THEN Rejected(req, <<"Public key, message, and signature are required">>)
  ELSE \E rd \in Readings :
         Served("dilithium_verify", req, "dilithium_verify",
                <<public_key, message, signature>>,
                dilithium_verify(pqc_utils, public_key, message, signature,
                                 rd[1], rd[2]))

\* POST /api/dilithium/verify
api_dilithium_verify ==
  /\ Open
  /\ \E req \in Requests("/api/dilithium/verify",
         {[public_key |-> a[1], message |-> m, signature |-> a[2]] :
            a \in ArgPairs(KeyArgs("dilithium", "public_key"),
                           Junk \cup (IF caller.sign_result.have
                                       THEN {caller.sign_result.signature}
                                       ELSE {})),
            m \in Messages}) :
       IF get_json(req).raised THEN Rejected(req, get_json(req).msg)
       ELSE dilithium_verify_handler(req, dict_get(req.data, "public_key"),
                                     dict_get(req.data, "message"),
                                     dict_get(req.data, "signature"))

\* POST /api/clear: db.clear_database(); session.clear()
api_clear ==
  \E l \in {"none", "operation"} :
    LET cleared == clear_database(db, l = "operation")
        req == [NoRequest EXCEPT !.endpoint = "/api/clear", !.locked = l]
    IN IF cleared.raised THEN Rejected(req, cleared.msg)
       ELSE Answer(req, NoCall, pqc_utils.performance_metrics, cleared.value,
                   NoSession,
                   [NoResponse EXCEPT !.status = 200, !.success = TRUE],
                   caller)

\* a second of the database clock passes
Tick ==
  /\ now < MaxClock
  /\ now' = now + 1
  /\ UNCHANGED <<LIBOQS_AVAILABLE, pqc_utils, call, caller, db, session, request,
                 response>>

Next ==
  \/ api_kyber_keygen
  \/ api_kyber_encaps
  \/ api_kyber_decap
  \/ api_dilithium_keygen
  \/ api_dilithium_sign
  \/ api_dilithium_verify
  \/ api_clear
  \/ Tick

Spec == Init /\ [][Next]_vars

(***************************************************************************)
(* A run of the repository is a run of a script or a run of the            *)
(* application: the first step decides which.                              *)
(***************************************************************************)
ScriptRun == request = NoRequest /\ now = 0

AppRun == request # NoRequest \/ call = NoCall

NextPrograms ==
  \/ ScriptRun /\ NextGateway
  \/ AppRun /\ Next

SpecPrograms == Init /\ [][NextPrograms]_vars

(***************************************************************************)
(* ResourceMonitor on its own: monitors constructed with the ceilings of   *)
(* Ceilings, sampled at the readings around them.                          *)
(***************************************************************************)
Ceilings == {<<50, 80>>, <<1, 80>>, <<50, 100>>}

MemoryReadings == {0, 999, 1000, 1001, 49999, 50000, 50001}

CpuReadings == {0, 79999, 80000, 80001, 99999, 100000, 100001}

InitMonitor ==
  /\ LIBOQS_AVAILABLE \in BOOLEAN
  /\ \E c \in Ceilings :
       pqc_utils = [PQCUtils_init(LIBOQS_AVAILABLE) EXCEPT
                      !.resource_monitor = ResourceMonitor_init(c[1], c[2])]
  /\ call = NoCall
  /\ caller = [keys |-> NoKeys, encaps_result |-> NoEncaps, sign_result |-> NoSign]
  /\ db = Database_init
  /\ session = NoSession
  /\ request = NoRequest
  /\ response = NoResponse
  /\ now = 0

CallCheckResources ==
  \E m \in MemoryReadings, c \in CpuReadings :
    /\ call' = [NoCall EXCEPT !.op = "check_resources", !.args = <<m, c>>,
                 !.checked = check_resources(pqc_utils.resource_monitor, m, c)]
    /\ UNCHANGED <<LIBOQS_AVAILABLE, pqc_utils, caller, db, session, request,
                   response, now>>

CallGetResourceUsage ==
  \E m \in MemoryReadings, c \in CpuReadings :
    /\ call' = [NoCall EXCEPT !.op = "get_resource_usage", !.args = <<m, c>>,
                 !.result = get_resource_usage(pqc_utils.resource_monitor, m, c)]
    /\ UNCHANGED <<LIBOQS_AVAILABLE, pqc_utils, caller, db, session, request,
                   response, now>>

NextMonitor ==
  \/ CallCheckResources
  \/ CallGetResourceUsage

SpecMonitor == InitMonitor /\ [][NextMonitor]_vars

(***************************************************************************)
(* Database on its own: a script that stores rows and queries them, as     *)
(* test_database of src/test_app.py and demo_database_operations of        *)
(* src/demo.py do.  `call` holds the last method called: its name, for a   *)
(* query its limit, whether it raised, and what it returned (the list of   *)
(* a recent-operations query as `rows`, the dict of the statistics as      *)
(* `stats`).                                                               *)
(***************************************************************************)
\* the number of INSERTs a run is followed for
MaxStores == 3

\* "pk", "sk", "ct", "ss", "m", "sg": the texts the script stores
StoredTexts ==
  [public_key |-> <<112, 107>>, private_key |-> <<115, 107>>,
   ciphertext |-> <<99, 116>>, shared_secret |-> <<115, 115>>,
   message |-> <<109>>, signature |-> <<115, 103>>]

\* the operation_type and execution_time_ms of the metrics it appends
MetricKinds == {"test_operation", "kyber_keygen"}

ExecutionTimes == {1235, 10}

\* the limits it queries with: below, at and above the number of rows
Limits == {1, 2, 10}

Stores ==
  db.sqlite_sequence.kyber_operations + db.sqlite_sequence.dilithium_operations
    + db.sqlite_sequence.performance_metrics

\* a call of a method that writes, `o` being its outcome
Wrote(op, o) ==
  /\ db' = IF o.raised THEN db ELSE o.value
  /\ call' = [NoCall EXCEPT !.op = op, !.raised = o.raised, !.msg = o.msg]
  /\ UNCHANGED <<LIBOQS_AVAILABLE, pqc_utils, caller, session, request,
                 response, now>>

\* a call of a method that reads, `result` being what it returned
Queried(op, args, result) ==
  /\ call' = [NoCall EXCEPT !.op = op, !.args = args, !.result = result]
  /\ UNCHANGED <<LIBOQS_AVAILABLE, pqc_utils, caller, db, session, request,
                 response, now>>

CallStoreKyberKeygen ==
  /\ Stores < MaxStores
  /\ \E l \in BOOLEAN :
       Wrote("store_kyber_keygen",
             store_kyber_keygen(db, StoredTexts.public_key,
                                StoredTexts.private_key, now, l))

CallStoreKyberEncaps ==
  /\ Stores < MaxStores
  /\ \E l \in BOOLEAN :
       Wrote("store_kyber_encaps",
             store_kyber_encaps(db, StoredTexts.public_key, StoredTexts.ciphertext,
                                StoredTexts.shared_secret, now, l))

CallStoreKyberDecap ==
  /\ Stores < MaxStores
  /\ \E l \in BOOLEAN :
       Wrote("store_kyber_decap",
             store_kyber_decap(db, StoredTexts.private_key, StoredTexts.ciphertext,
                               StoredTexts.shared_secret, now, l))

CallStoreDilithiumKeygen ==
  /\ Stores < MaxStores
  /\ \E l \in BOOLEAN :
       Wrote("store_dilithium_keygen",
             store_dilithium_keygen(db, StoredTexts.public_key,
                                    StoredTexts.private_key, now, l))

CallStoreDilithiumSign ==
  /\ Stores < MaxStores
  /\ \E l \in BOOLEAN :
       Wrote("store_dilithium_sign",
             store_dilithium_sign(db, StoredTexts.private_key, StoredTexts.message,
                                  StoredTexts.signature, now, l))

CallStoreDilithiumVerify ==
  /\ Stores < MaxStores
  /\ \E v \in BOOLEAN, l \in BOOLEAN :
       Wrote("store_dilithium_verify",
             store_dilithium_verify(db, StoredTexts.public_key, StoredTexts.message,
                                    StoredTexts.signature, v, now, l))

CallStorePerformanceMetric ==
  /\ Stores < MaxStores
  /\ \E k \in MetricKinds, t \in ExecutionTimes, l \in BOOLEAN :
       Wrote("store_performance_metric",
             store_performance_metric(db, k, t, 25000, 15000, now, l))

CallGetRecentKyberOperations ==
  \E limit \in Limits : \E rows \in get_recent_kyber_operations(db, limit) :
    Queried("get_recent_kyber_operations", <<limit>>, [rows |-> rows])

CallGetRecentDilithiumOperations ==
  \E limit \in Limits : \E rows \in get_recent_dilithium_operations(db, limit) :
    Queried("get_recent_dilithium_operations", <<limit>>, [rows |-> rows])

CallGetPerformanceStats ==
  Queried("get_performance_stats", <<>>, [stats |-> get_performance_stats(db)])

CallClearDatabase ==
  \E l \in BOOLEAN : Wrote("clear_database", clear_database(db, l))

NextDatabase ==
  \/ CallStoreKyberKeygen
  \/ CallStoreKyberEncaps
  \/ CallStoreKyberDecap
  \/ CallStoreDilithiumKeygen
  \/ CallStoreDilithiumSign
  \/ CallStoreDilithiumVerify
  \/ CallStorePerformanceMetric
  \/ CallGetRecentKyberOperations
  \/ CallGetRecentDilithiumOperations
  \/ CallGetPerformanceStats
  \/ CallClearDatabase
  \/ Tick

SpecDatabase == Init /\ [][NextDatabase]_vars

(***************************************************************************)
(* The base64 transforms on their own: base64.b64encode(b).decode('utf-8') *)
(* on a byte string and base64.b64decode(s) on a str, as the gateway       *)
(* applies them to what it returns and to what it is given.  `call` holds  *)
(* the value at hand as result.bytes or result.text.                       *)
(***************************************************************************)
\* the longest byte string tried
MaxLen == 3

\* the byte strings encoded: the strings of at most MaxLen bytes over 0,
\* "A", 0x80 and 0xff, and the values os.urandom gave the simulator
ByteStrings ==
  UNION {[1..n -> {0, 65, 128, 255}] : n \in 0..MaxLen} \cup PackedBytes

\* texts that no byte string encodes to: "Q", "QR==", "QQ==\n" and "QQ"
Malformed == {<<81>>, <<81, 82, 61, 61>>, <<81, 81, 61, 61, 10>>, <<81, 81>>}

InitBase64 ==
  /\ LIBOQS_AVAILABLE \in BOOLEAN
  /\ pqc_utils = PQCUtils_init(LIBOQS_AVAILABLE)
  /\ \/ \E b \in ByteStrings :
          call = [NoCall EXCEPT !.args = <<b>>, !.result = [bytes |-> b]]
     \/ \E s \in Malformed :
          call = [NoCall EXCEPT !.args = <<s>>, !.result = [text |-> s]]
  /\ caller = [keys |-> NoKeys, encaps_result |-> NoEncaps, sign_result |-> NoSign]
  /\ db = Database_init
  /\ session = NoSession
  /\ request = NoRequest
  /\ response = NoResponse
  /\ now = 0

\* base64.b64encode(b).decode('utf-8') on the bytes at hand
CallB64encode ==
  /\ "bytes" \in DOMAIN call.result
  /\ call' = [NoCall EXCEPT !.op = "b64encode", !.args = <<call.result.bytes>>,
                            !.result = [text |-> b64encode(call.result.bytes)]]
  /\ UNCHANGED <<LIBOQS_AVAILABLE, pqc_utils, caller, db, session, request,
                 response, now>>

\* base64.b64decode(s) on the text at hand
CallB64decode ==
  /\ "text" \in DOMAIN call.result
  /\ LET o == b64decode(call.result.text)
     IN call' = [NoCall EXCEPT !.op = "b64decode", !.args = <<call.result.text>>,
                               !.raised = o.raised, !.msg = o.msg,
                               !.result = IF o.raised THEN NoResult
                                          ELSE [bytes |-> o.value]]
  /\ UNCHANGED <<LIBOQS_AVAILABLE, pqc_utils, caller, db, session, request,
                 response, now>>

NextBase64 ==
  \/ CallB64encode
  \/ CallB64decode

SpecBase64 == InitBase64 /\ [][NextBase64]_vars

(***************************************************************************)
(* The application serving requests concurrently (the server started at    *)
(* src/app.py:301 handles each request in a thread of its own).  Here      *)
(* `request` holds, for each thread, the request it is handling: the       *)
(* position of its handler (pc), the kind it stores under, its gateway     *)
(* call and the call's outcome.  A handler runs in three steps, the        *)
(* gateway call and the two transactions that follow it; SQLite            *)
(* serialises the transactions, and threads interleave between them.       *)
(***************************************************************************)
\* the number of threads
NumThreads == 2

Threads == 1..NumThreads

NoThread ==
  [pc |-> "idle", kind |-> "none", op |-> "none", args |-> <<>>,
   outcome |-> NoResult]

\* the gateway calls the handlers make on bodies that pass their validation:
\* <<kind, operation, arguments>>, the keys being those the client holds
HandlerCalls ==
  {<<"kyber_keygen", "generate_kyber_keypair", <<>>>>,
   <<"dilithium_keygen", "generate_dilithium_keypair", <<>>>>}
  \cup (IF caller.keys.have /\ caller.keys.family = "kyber"
          THEN {<<"kyber_encaps", "kyber_encapsulate", <<caller.keys.public_key>>>>}
        ELSE {})
  \cup (IF caller.encaps_result.have
          THEN {<<"kyber_decap", "kyber_decap",
                  <<caller.keys.private_key, caller.encaps_result.ciphertext>>>>}
        ELSE {})
  \cup (IF caller.keys.have /\ caller.keys.family = "dilithium"
          THEN {<<"dilithium_sign", "dilithium_sign",
                  <<caller.keys.private_key, <<104, 233>>>>>>}
        ELSE {})
  \cup (IF caller.sign_result.have
          THEN {<<"dilithium_verify", "dilithium_verify",
                  <<caller.keys.public_key, caller.sign_result.message,
                    caller.sign_result.signature>>>>}
        ELSE {})

\* the gateway call of a handler
gateway_call(op, args, rd, rnd) ==
  CASE op = "generate_kyber_keypair" ->
         generate_kyber_keypair(pqc_utils, rd[1], rd[2], rnd)
    [] op = "kyber_encapsulate" ->
         kyber_encapsulate(pqc_utils, args[1], rd[1], rd[2], rnd)
    [] op = "kyber_decap" ->
         kyber_decap(pqc_utils, args[1], args[2], rd[1], rd[2], rnd)
    [] op = "generate_dilithium_keypair" ->
         generate_dilithium_keypair(pqc_utils, rd[1], rd[2], rnd)
    [] op = "dilithium_sign" ->
         dilithium_sign(pqc_utils, args[1], args[2], rd[1], rd[2], rnd)
    [] op = "dilithium_verify" ->
         dilithium_verify(pqc_utils, args[1], args[2], args[3], rd[1], rd[2])

InitConcurrent ==
  /\ LIBOQS_AVAILABLE \in BOOLEAN
  /\ pqc_utils = PQCUtils_init(LIBOQS_AVAILABLE)
  /\ call = NoCall
  /\ caller = [keys |-> NoKeys, encaps_result |-> NoEncaps, sign_result |-> NoSign]
  /\ db = Database_init
  /\ session = NoSession
  /\ request = [t \in Threads |-> NoThread]
  /\ response = NoResponse
  /\ now = 0

\* a thread takes a request to a crypto endpoint up to the return of its
\* gateway call; a call that raises is answered at once
HandlerCall(t) ==
  /\ request[t].pc = "idle"
  /\ Open
  /\ \E c \in HandlerCalls, rd \in Readings :
       LET o == gateway_call(c[2], c[3], rd, 1)
       IN /\ call' = Called(c[2], c[3], o)
          /\ pqc_utils' = [pqc_utils EXCEPT
                             !.performance_metrics = o.performance_metrics]
          /\ IF o.raised
               THEN /\ response' = error_response(o.msg)
                    /\ request' = request
             ELSE /\ response' = response
                  /\ request' = [request EXCEPT ![t] =
                        [pc |-> "called", kind |-> c[1], op |-> c[2],
                         args |-> c[3], outcome |-> o]]
  /\ UNCHANGED <<LIBOQS_AVAILABLE, caller, db, session, now>>

\* the thread's db.store_<operation> call: one transaction
HandlerStoreOperation(t) ==
  /\ request[t].pc = "called"
  /\ \E l \in BOOLEAN :
       LET stored == store_operation(request[t].kind, db, request[t].args,
                                     request[t].outcome.result, now, l)
       IN IF stored.raised
            THEN /\ db' = db
                 /\ response' = error_response(stored.msg)
                 /\ request' = [request EXCEPT ![t] = NoThread]
          ELSE /\ db' = stored.value
               /\ response' = response
               /\ request' = [request EXCEPT ![t].pc = "stored"]
  /\ UNCHANGED <<LIBOQS_AVAILABLE, pqc_utils, call, caller, session, now>>

\* the rest of the handler: the metrics read, db.store_performance_metric
\* (a second transaction), the session assignments and the answer
HandlerStoreMetric(t) ==
  /\ request[t].pc = "stored"
  /\ \E d \in Durations, u \in Samples, l \in BOOLEAN :
       LET metrics == get_performance_metrics(pqc_utils, u[1], u[2])
           sampled == store_performance_metric(db, request[t].kind, d,
                        metrics["memory_mb"], metrics["cpu_percent"], now, l)
       IN IF sampled.raised
            THEN /\ db' = db
                 /\ response' = error_response(sampled.msg)
                 /\ UNCHANGED <<session, caller>>
          ELSE /\ db' = sampled.value
               /\ response' = success_response(request[t].outcome.result, d)
               /\ session' = session_after(request[t].kind,
                                           request[t].outcome.result)
               /\ caller' = Kept(request[t].op, request[t].args,
                                 request[t].outcome)
  /\ request' = [request EXCEPT ![t] = NoThread]
  /\ UNCHANGED <<LIBOQS_AVAILABLE, pqc_utils, call, now>>

\* a thread serves POST /api/clear: db.clear_database() (one transaction)
\* and session.clear()
HandlerClear(t) ==
  /\ request[t].pc = "idle"
  /\ \E l \in BOOLEAN :
       LET cleared == clear_database(db, l)
       IN IF cleared.raised
            THEN /\ response' = error_response(cleared.msg)
                 /\ UNCHANGED <<db, session>>
          ELSE /\ db' = cleared.value
               /\ session' = NoSession
               /\ response' = [NoResponse EXCEPT !.status = 200, !.success = TRUE]
  /\ UNCHANGED <<LIBOQS_AVAILABLE, pqc_utils, call, caller, request, now>>

NextConcurrent ==
  \/ \E t \in Threads : HandlerCall(t)
  \/ \E t \in Threads : HandlerStoreOperation(t)
  \/ \E t \in Threads : HandlerStoreMetric(t)
  \/ \E t \in Threads : HandlerClear(t)

SpecConcurrent == InitConcurrent /\ [][NextConcurrent]_vars

(***************************************************************************)
(* Vocabulary of the properties.                                           *)
(***************************************************************************)
GatewayOps ==
  {"generate_kyber_keypair", "kyber_encapsulate", "kyber_decap",
   "generate_dilithium_keypair", "dilithium_sign", "dilithium_verify"}

\* the prefix of the RuntimeError an operation's except clause raises
Prefix(op) ==
  CASE op = "generate_kyber_keypair" -> "Key generation failed: "
    [] op = "kyber_encapsulate" -> "Encapsulation failed: "
    [] op = "kyber_decap" -> "Decapsulation failed: "
    [] op = "generate_dilithium_keypair" -> "Key generation failed: "
    [] op = "dilithium_sign" -> "Signing failed: "
    [] op = "dilithium_verify" -> "Verification failed: "

\* the performance_metrics key an operation sets, and the value it sets
MetricOf(op) ==
  CASE op = "generate_kyber_keypair" -> "kyber_keygen_time"
    [] op = "kyber_encapsulate" -> "kyber_encaps_time"
    [] op = "kyber_decap" -> "kyber_decap_time"
    [] op = "generate_dilithium_keypair" -> "dilithium_keygen_time"
    [] op = "dilithium_sign" -> "dilithium_sign_time"
    [] op = "dilithium_verify" -> "dilithium_verify_time"

SecondsOf(op) ==
  CASE op = "generate_kyber_keypair" -> 500
    [] op = "kyber_encapsulate" -> 300
    [] op = "kyber_decap" -> 200
    [] op = "generate_dilithium_keypair" -> 1200
    [] op = "dilithium_sign" -> 800
    [] op = "dilithium_verify" -> 400

\* the crypto endpoints, the operation_type each stores its sample under
\* and the keys each requires of its body
CryptoEndpoints ==
  {"/api/kyber/keygen", "/api/kyber/encaps", "/api/kyber/decap",
   "/api/dilithium/keygen", "/api/dilithium/sign", "/api/dilithium/verify"}

KindOf(endpoint) ==
  CASE endpoint = "/api/kyber/keygen" -> "kyber_keygen"
    [] endpoint = "/api/kyber/encaps" -> "kyber_encaps"
    [] endpoint = "/api/kyber/decap" -> "kyber_decap"
    [] endpoint = "/api/dilithium/keygen" -> "dilithium_keygen"
    [] endpoint = "/api/dilithium/sign" -> "dilithium_sign"
    [] endpoint = "/api/dilithium/verify" -> "dilithium_verify"

Required(endpoint) ==
  CASE endpoint = "/api/kyber/encaps" -> {"public_key"}
    [] endpoint = "/api/kyber/decap" -> {"private_key", "ciphertext"}
    [] endpoint = "/api/dilithium/sign" -> {"private_key", "message"}
    [] endpoint = "/api/dilithium/verify" -> {"public_key", "message", "signature"}
    [] OTHER -> {}

\* the step handled a request to a crypto endpoint
CryptoRequestStep == request'.endpoint \in CryptoEndpoints /\ now' = now

(***************************************************************************)
(* Properties.                                                             *)
(***************************************************************************)
\* C1: whenever the budget check of a gateway operation returns false, the
\* operation raises "Resource constraints exceeded", no backend operation
\* is invoked, the gateway records no timing, no performance sample is
\* stored and the endpoint answers with that error.
C1_BudgetGate ==
  [][(call'.op \in GatewayOps /\ ~call'.checked /\ CryptoRequestStep)
       => /\ call'.raised
          /\ call'.msg = <<"Resource constraints exceeded">>
          /\ call'.backend = <<>>
          /\ pqc_utils'.performance_metrics = pqc_utils.performance_metrics
          /\ db'.performance_metrics = db.performance_metrics
          /\ response' = error_response(<<"Resource constraints exceeded">>)]_vars

C1_Witness ==
  /\ request.endpoint = "/api/dilithium/verify"
  /\ call.op = "dilithium_verify"
  /\ ~call.checked
  /\ response.status = 400

\* C2: check_resources returns false exactly when the memory reading is
\* above max_memory_mb or the CPU reading is above max_cpu_percent, so it
\* returns true when both readings equal their ceilings.
C2_CheckIffOver ==
  call.op = "check_resources"
    => (call.checked = FALSE
          <=> \/ call.args[1] > pqc_utils.resource_monitor.max_memory_mb * 1000
              \/ call.args[2] > pqc_utils.resource_monitor.max_cpu_percent * 1000)

C2_Witness ==
  /\ call.op = "check_resources"
  /\ call.args[1] = pqc_utils.resource_monitor.max_memory_mb * 1000
  /\ call.args[2] = pqc_utils.resource_monitor.max_cpu_percent * 1000
  /\ call.checked

\* C3: with the real provider, encapsulating to the public key of a
\* generated keypair succeeds, and decapsulating the resulting ciphertext
\* with the keypair's private key succeeds and returns the shared secret
\* the encapsulation returned (budget permitting).
C3_KemRoundTrip ==
  (LIBOQS_AVAILABLE /\ call.checked /\ caller.keys.have
     /\ caller.keys.family = "kyber")
    => /\ (call.op = "kyber_encapsulate"
              /\ call.args = <<caller.keys.public_key>>)
            => ~call.raised
       /\ (call.op = "kyber_decap" /\ caller.encaps_result.have
              /\ call.args = <<caller.keys.private_key,
                               caller.encaps_result.ciphertext>>)
            => /\ ~call.raised
               /\ call.result.shared_secret = caller.encaps_result.shared_secret

C3_Witness ==
  /\ LIBOQS_AVAILABLE
  /\ call.op = "kyber_decap"
  /\ caller.encaps_result.have
  /\ call.args = <<caller.keys.private_key, caller.encaps_result.ciphertext>>
  /\ ~call.raised
  /\ call.result.shared_secret = caller.encaps_result.shared_secret

\* C4: with the real provider, verifying a signature that dilithium_sign
\* returned for message m under a generated keypair, with the keypair's
\* public key and the same m, completes without error and returns
\* is_valid true (budget permitting).
C4_SignThenVerify ==
  (LIBOQS_AVAILABLE /\ call.op = "dilithium_verify" /\ call.checked
     /\ caller.sign_result.have
     /\ call.args = <<caller.keys.public_key, caller.sign_result.message,
                      caller.sign_result.signature>>)
    => (~call.raised /\ call.result.is_valid)

\* C5: with the real provider, verifying a signature made over m' against
\* a different message m returns a result with is_valid false (budget
\* permitting).
C5_NegativeVerify ==
  (LIBOQS_AVAILABLE /\ call.op = "dilithium_verify" /\ call.checked
     /\ caller.sign_result.have
     /\ call.args[1] = caller.keys.public_key
     /\ call.args[2] # caller.sign_result.message
     /\ call.args[3] = caller.sign_result.signature)
    => (~call.raised /\ ~call.result.is_valid)

C7_BackendErrorsWrapped ==
  (call.op \in GatewayOps /\ call.thrower = "backend")
    => /\ call.raised
       /\ call.cause # <<>>
       /\ call.msg = <<Prefix(call.op)>> \o call.cause

C7_Witness ==
  /\ call.op = "kyber_decap"
  /\ call.thrower = "backend"
  /\ call.backend = <<"KeyEncapsulation", "import_secret_key", "decap_secret">>
  /\ call.msg = <<"Decapsulation failed: ", "invalid ciphertext">>

\* C8: a request to a crypto endpoint that is answered with success stores
\* exactly one performance sample, with the endpoint's operation type and
\* the resource reading taken while handling it; a request that is
\* answered with an error stores none.
C8_OneSamplePerSuccess ==
  [][CryptoRequestStep
       => IF response'.success
            THEN /\ Len(db'.performance_metrics) = Len(db.performance_metrics) + 1
                 /\ SubSeq(db'.performance_metrics, 1, Len(db.performance_metrics))
                      = db.performance_metrics
                 /\ request'.sample.taken
                 /\ LET row == db'.performance_metrics[Len(db'.performance_metrics)]
                    IN /\ row.operation_type = KindOf(request'.endpoint)
                       /\ row.memory_usage_mb = round2(request'.sample.memory_usage)
                       /\ row.cpu_usage_percent = round2(request'.sample.cpu_percent)
          ELSE db'.performance_metrics = db.performance_metrics]_vars

C8_Witness ==
  /\ request.endpoint = "/api/kyber/encaps"
  /\ response.success
  /\ Len(db.performance_metrics) = 2
  /\ db.performance_metrics[2].operation_type = "kyber_encaps"
  /\ db.performance_metrics[2].memory_usage_mb = round2(request.sample.memory_usage)

C10_FailuresAre400 ==
  request.endpoint \in CryptoEndpoints
    => IF \/ Required(request.endpoint) # {} /\ request.body # "object"
          \/ \E k \in Required(request.endpoint) :
               dict_get(request.data, k) \in {None, <<>>}
          \/ call.raised
          \/ request.locked # "none"
         THEN /\ response.status = 400
              /\ ~response.success
              /\ response.error # <<>>
              /\ response.result = NoResult
       ELSE response.status = 200 /\ response.success

C10_Witness ==
  /\ request.endpoint = "/api/kyber/keygen"
  /\ ~call.raised
  /\ request.locked = "operation"
  /\ response.status = 400
  /\ response.error = <<"database is locked">>

\* the rows of a table a query with `limit` returns when it returns the
\* latest stored first
NewestFirst(rows, limit) ==
  [i \in 1..(IF limit < Len(rows) THEN limit ELSE Len(rows)) |->
     rows[Len(rows) + 1 - i]]

\* C11: after N stores of a family, the recent-operations query with limit L
\* returns the min(L, N) rows stored last, the latest first, in the exact
\* reverse of the order of the calls, also when calls stored their rows under
\* the same timestamp.
C11_NewestFirst ==
  /\ call.op = "get_recent_kyber_operations"
       => call.result.rows = NewestFirst(db.kyber_operations, call.args[1])
  /\ call.op = "get_recent_dilithium_operations"
       => call.result.rows = NewestFirst(db.dilithium_operations, call.args[1])

\* C12: in simulation mode dilithium_verify returns is_valid true for every
\* (public key, message, signature) that passes the budget check and whose
\* key and signature decode, whatever they are.
C12_SimulatedVerifyAccepts ==
  (/\ ~LIBOQS_AVAILABLE
   /\ call.op = "dilithium_verify"
   /\ call.checked
   /\ ~b64decode(call.args[1]).raised
   /\ ~b64decode(call.args[3]).raised)
    => ~call.raised /\ call.result.is_valid = TRUE

\* the simulator accepts the empty signature under the empty key
C12_Witness ==
  /\ ~LIBOQS_AVAILABLE
  /\ call.op = "dilithium_verify"
  /\ call.args[1] = <<>>
  /\ call.args[3] = <<>>
  /\ ~call.raised
  /\ call.result.is_valid = TRUE

\* C13: the backend variant is chosen once, when the gateway is constructed,
\* and no call changes it: LIBOQS_AVAILABLE and the instance's simulator stay
\* what they were, and every call that reaches a backend reaches the
\* provider when the instance was built without a simulator and the
\* simulator otherwise.
C13_BackendFixed ==
  [][/\ LIBOQS_AVAILABLE' = LIBOQS_AVAILABLE
     /\ pqc_utils'.simulator = pqc_utils.simulator
     /\ (call'.op \in GatewayOps /\ call'.backend # <<>>)
          => ((call'.backend[1] \in {"KeyEncapsulation", "Signature"})
                <=> pqc_utils.simulator = "unset")]_vars

\* a later call of a simulated instance still goes to the simulator
C13_Witness ==
  /\ ~LIBOQS_AVAILABLE
  /\ pqc_utils.simulator = "PQCSimulator"
  /\ call.op = "kyber_decap"
  /\ call.backend = <<"kyber_decap">>
  /\ Cardinality(DOMAIN pqc_utils.performance_metrics) >= 3

\* the positions of an operation's base64 arguments, in the order the
\* operation decodes them
Base64Args(op) ==
  CASE op = "kyber_encapsulate" -> {1}
    [] op = "kyber_decap" -> {1, 2}
    [] op = "dilithium_sign" -> {1}
    [] op = "dilithium_verify" -> {1, 3}
    [] OTHER -> {}

\* the arguments of the last call that base64.b64decode raises on
Undecodable ==
  {i \in Base64Args(call.op) : b64decode(call.args[i]).raised}

\* the last call passed the budget check and b64decode raises on one of
\* its arguments
DecodeFails == call.op \in GatewayOps /\ call.checked /\ Undecodable # {}

LacksRequired ==
  /\ Required(request.endpoint) # {}
  /\ \/ request.body # "object"
     \/ \E k \in Required(request.endpoint) : falsy(dict_get(request.data, k))

\* C15: in every operation the budget check is evaluated before any
\* validation or decoding of the inputs: a request to a crypto endpoint that
\* fails with another error than "Resource constraints exceeded" (inputs
\* missing, empty or undecodable) had its budget check evaluated, and passed,
\* before.
C15_CheckBeforeValidation ==
  (/\ request.endpoint \in CryptoEndpoints
   /\ response.status = 400
   /\ response.error # <<"Resource constraints exceeded">>)
    => (call.op \in GatewayOps /\ call.checked)

\* C15, amended: inside a gateway operation the budget check comes before
\* any decoding, so a call whose check returns false raises "Resource
\* constraints exceeded" whatever its arguments, and a decoding error is
\* raised only after the check returned true; the HTTP handlers, though,
\* validate the body before they call the gateway: a request that lacks a
\* required field is answered with its own 400 error and the budget is not
\* checked at all.
C15_CheckBeforeDecoding ==
  /\ (call.op \in GatewayOps /\ ~call.checked)
       => /\ call.thrower = "budget"
          /\ call.msg = <<"Resource constraints exceeded">>
          /\ response = error_response(<<"Resource constraints exceeded">>)
  /\ (call.op \in GatewayOps /\ call.thrower = "decode") => call.checked
  /\ LacksRequired
       => /\ call = NoCall
          /\ response.status = 400
          /\ response.error # <<"Resource constraints exceeded">>

\* a verification of the undecodable signature "Q", requested while the
\* budget is exceeded
C15_Witness ==
  /\ request.endpoint = "/api/dilithium/verify"
  /\ call.op = "dilithium_verify"
  /\ b64decode(call.args[3]).raised
  /\ ~call.checked
  /\ response = error_response(<<"Resource constraints exceeded">>)

\* the tables of the history store and the table each store method writes
Tables == {"kyber_operations", "dilithium_operations", "performance_metrics"}

TableOf(op) ==
  CASE op \in {"store_kyber_keygen", "store_kyber_encaps", "store_kyber_decap"}
         -> "kyber_operations"
    [] op \in {"store_dilithium_keygen", "store_dilithium_sign",
               "store_dilithium_verify"} -> "dilithium_operations"
    [] op = "store_performance_metric" -> "performance_metrics"
    [] OTHER -> "none"

\* the step is a call of a Database method (the clock stands still)
DatabaseCallStep == now' = now

\* C16: the history store is append-only.  A store call that returns adds
\* exactly one row, at the end of exactly one table (its own), and leaves
\* every row there was as it was; a call that raises changes nothing; and
\* rows go away only by clear_database, which empties the three tables.
C16_AppendOnly ==
  [][DatabaseCallStep =>
       /\ (TableOf(call'.op) # "none" /\ ~call'.raised)
            => /\ Len(db'[TableOf(call'.op)]) = Len(db[TableOf(call'.op)]) + 1
               /\ SubSeq(db'[TableOf(call'.op)], 1, Len(db[TableOf(call'.op)]))
                    = db[TableOf(call'.op)]
               /\ \A t \in Tables \ {TableOf(call'.op)} : db'[t] = db[t]
       /\ call'.raised => db' = db
       /\ (\E t \in Tables :
             \/ Len(db'[t]) < Len(db[t])
             \/ SubSeq(db'[t], 1, Len(db[t])) # db[t])
            => /\ call'.op = "clear_database"
               /\ \A t \in Tables : db'[t] = <<>>]_vars

\* a second kyber row stored next to a dilithium row
C16_Witness ==
  /\ call.op = "store_kyber_encaps"
  /\ ~call.raised
  /\ Len(db.kyber_operations) = 2
  /\ db.kyber_operations[2].operation_type = "encaps"
  /\ Len(db.dilithium_operations) = 1

\* the sum of execution_time_ms over the first n of `rows` that have
\* operation_type k
TimeOf(rows, k, n) ==
  LET S[m \in 0..n] ==
        IF m = 0 THEN 0
        ELSE S[m - 1] + (IF rows[m].operation_type = k
                           THEN rows[m].execution_time_ms ELSE 0)
  IN S[n]

\* C17: the statistics hold an entry for an operation type exactly when the
\* table holds a metric of that type (one appended since the last clear);
\* the entry's count is the number of these metrics and its avg_time_ms is
\* their mean execution time rounded to two decimals (a multiple of 0.01 ms
\* at most 0.005 ms from the mean).
C17_StatsAreCountAndMean ==
  call.op = "get_performance_stats" =>
    LET rows == db.performance_metrics
        stats == call.result.stats
    IN /\ DOMAIN stats = {rows[i].operation_type : i \in DOMAIN rows}
       /\ \A k \in DOMAIN stats :
            LET n == Cardinality({i \in DOMAIN rows : rows[i].operation_type = k})
                d == stats[k].avg_time_ms * n - TimeOf(rows, k, Len(rows))
            IN /\ stats[k].count = n
               /\ stats[k].avg_time_ms % 10 = 0
               /\ d <= 5 * n
               /\ -d <= 5 * n

\* after a clear, two metrics of one type (1.235 ms and 0.01 ms: mean
\* 0.6225 ms) and none of the other
C17_Witness ==
  /\ call.op = "get_performance_stats"
  /\ db.sqlite_sequence.performance_metrics = 3
  /\ Len(db.performance_metrics) = 2
  /\ DOMAIN call.result.stats = {"kyber_keygen"}
  /\ call.result.stats["kyber_keygen"] = [avg_time_ms |-> 620, count |-> 2]

\* C18: after a clear the recent-operations queries of both families return
\* the empty list, whatever their limit, and the statistics are empty; a
\* clear through POST /api/clear leaves no key in the caller's session
\* either.
C18_ClearEmptiesAll ==
  (request.endpoint = "/api/clear" /\ response.success)
    => /\ \A limit \in Limits :
            /\ get_recent_kyber_operations(db, limit) = {<<>>}
            /\ get_recent_dilithium_operations(db, limit) = {<<>>}
       /\ DOMAIN get_performance_stats(db) = {}
       /\ session = NoSession

\* a clear after requests that stored rows and a keypair in the session
C18_Witness ==
  /\ request.endpoint = "/api/clear"
  /\ response.success
  /\ caller.keys.have
  /\ db.sqlite_sequence.performance_metrics = 2
  /\ db.sqlite_sequence.kyber_operations > 0
  /\ db.sqlite_sequence.dilithium_operations > 0
  /\ session = NoSession

\* C19: the resource budget is immutable.  No call changes the ceilings of
\* the gateway's monitor, which are the 50 MB and 80 percent it was
\* constructed with, and get_performance_metrics reports exactly these as
\* max_memory_mb and max_cpu_percent.
C19_BudgetImmutable ==
  [][/\ pqc_utils'.resource_monitor = pqc_utils.resource_monitor
     /\ pqc_utils'.resource_monitor = ResourceMonitor_init(50, 80)
     /\ call'.op = "get_performance_metrics"
          => /\ call'.result["max_memory_mb"]
                  = pqc_utils.resource_monitor.max_memory_mb
             /\ call'.result["max_cpu_percent"]
                  = pqc_utils.resource_monitor.max_cpu_percent]_vars

\* a metrics read after operations, one of which met an exceeded budget
C19_Witness ==
  /\ call.op = "get_performance_metrics"
  /\ call.result["max_memory_mb"] = 50
  /\ call.result["max_cpu_percent"] = 80
  /\ call.result["memory_mb"] = 31250
  /\ Cardinality(DOMAIN pqc_utils.performance_metrics) >= 2

\* the number of bytes a base64 text of a result decodes to
DecodedLen(text) == Len(Unpack(b64decode(text).value))

\* C20: the shapes of the simulated provider.  Kyber key generation returns
\* a public key of 800 bytes and a private key of 1632 bytes, Dilithium key
\* generation a public key of 1952 and a private key of 4000 bytes, and
\* encapsulation and decapsulation a shared secret of 32 bytes, whatever
\* key or ciphertext they are given.
C20_SimulatedShapes ==
  (~LIBOQS_AVAILABLE /\ call.op \in GatewayOps /\ ~call.raised) =>
    /\ call.op = "generate_kyber_keypair"
         => /\ DecodedLen(call.result.public_key) = 800
            /\ DecodedLen(call.result.private_key) = 1632
    /\ call.op = "generate_dilithium_keypair"
         => /\ DecodedLen(call.result.public_key) = 1952
            /\ DecodedLen(call.result.private_key) = 4000
    /\ call.op \in {"kyber_encapsulate", "kyber_decap"}
         => DecodedLen(call.result.shared_secret) = 32

\* a decapsulation of the empty ciphertext under the empty key
C20_Witness ==
  /\ ~LIBOQS_AVAILABLE
  /\ call.op = "kyber_decap"
  /\ call.args = <<<<>>, <<>>>>
  /\ ~call.raised
  /\ DecodedLen(call.result.shared_secret) = 32

\* the text is the encoded form of one of the byte strings
IsEncodedForm(x) == \E b \in ByteStrings : b64encode(b) = x

\* C21: the base64 transforms are a lossless round trip.  Decoding the
\* text a byte string b was encoded to returns b, and encoding what a text x
\* was decoded to returns x when x is the encoded form of a byte string.
C21_RoundTrip ==
  [][/\ (call.op = "b64encode" /\ call'.op = "b64decode")
          => /\ ~call'.raised
             /\ call'.result.bytes = call.args[1]
     /\ (call.op = "b64decode" /\ call'.op = "b64encode"
           /\ IsEncodedForm(call.args[1]))
          => call'.result.text = call.args[1]]_vars

\* "QQ==" came back from the byte string "A" that "QQ==" decodes to
C21_Witness ==
  /\ call.op = "b64encode"
  /\ call.args = <<<<65>>>>
  /\ call.result.text = <<81, 81, 61, 61>>

\* C22: failure atomicity at the HTTP boundary.  A request to a crypto
\* endpoint that is answered with a failure leaves in the history store no
\* operation row and no metric row of its own, and leaves the session as it
\* was.
C22_FailureAtomic ==
  [][(CryptoRequestStep /\ ~response'.success)
       => /\ \A t \in Tables : db'[t] = db[t]
          /\ session' = session]_vars

\* C24: the instance starts without timing entries; the entry of an
\* operation kind appears with the first call of that operation that
\* succeeds and with nothing else, so it is present exactly when the
\* operation has succeeded on the instance; every entry present is its kind's
\* constant (0.5, 0.3, 0.2, 1.2, 0.8, 0.4 seconds), no duration being
\* measured; a call that fails and a metrics read leave the entries as they
\* were, and the read returns them.
C24_TimingEntries ==
  /\ pqc_utils.performance_metrics = <<>>
  /\ [][/\ DOMAIN pqc_utils'.performance_metrics
             = DOMAIN pqc_utils.performance_metrics
               \cup (IF call'.op \in GatewayOps /\ ~call'.raised
                       THEN {MetricOf(call'.op)} ELSE {})
        /\ \A k \in DOMAIN pqc_utils'.performance_metrics :
             \E op \in GatewayOps :
               /\ k = MetricOf(op)
               /\ pqc_utils'.performance_metrics[k] = SecondsOf(op)
        /\ (call'.raised \/ call'.op = "get_performance_metrics")
             => pqc_utils'.performance_metrics = pqc_utils.performance_metrics
        /\ call'.op = "get_performance_metrics"
             => \A k \in DOMAIN pqc_utils.performance_metrics :
                  call'.result[k] = pqc_utils.performance_metrics[k]]_vars

\* an encapsulation that fails in its try block on an instance that holds
\* the two entries of the operations that succeeded before
C24_Witness ==
  /\ call.op = "kyber_encapsulate"
  /\ call.raised
  /\ call.checked
  /\ DOMAIN pqc_utils.performance_metrics
       = {"kyber_keygen_time", "kyber_decap_time"}
  /\ pqc_utils.performance_metrics["kyber_keygen_time"] = 500
  /\ pqc_utils.performance_metrics["kyber_decap_time"] = 200

\* the rows of a table stored under an operation_type
RowsOf(rows, operation_type) ==
  Cardinality({i \in DOMAIN rows : rows[i].operation_type = operation_type})

\* C23: whenever no request is being handled, the metric rows of each
\* operation kind are as many as the operation rows of that kind, whatever
\* crypto requests and clears were served and however they interleaved.
C23_MetricPerOperation ==
  (\A t \in Threads : request[t].pc = "idle") =>
    /\ \A k \in {"keygen", "encaps", "decap"} :
         RowsOf(db.performance_metrics, KindOf("/api/kyber/" \o k))
           = RowsOf(db.kyber_operations, k)
    /\ \A k \in {"keygen", "sign", "verify"} :
         RowsOf(db.performance_metrics, KindOf("/api/dilithium/" \o k))
           = RowsOf(db.dilithium_operations, k)

====
